---- MODULE Spec2Model ----
(***************************************************************************)
(* Model of the pl-analyzer calculation engine (src/src/lib/store.ts,      *)
(* calculations part) and of the reconciliation step of the extraction     *)
(* review screen (src/src/components/layout/Header.tsx).                   *)
(*                                                                         *)
(* JavaScript numbers are modelled as exact rationals <<num, den>> in      *)
(* lowest terms with den > 0, so that equal quantities are equal values.   *)
(* null and undefined are tuples that are no rational.                     *)
(***************************************************************************)
EXTENDS Integers, Sequences, FiniteSets, TLC

VARIABLES
    previous,   \* PeriodData: the `previous` argument of calculateWaterfallFactors
    current,    \* PeriodData: the period handed to calculateMetrics / calculateScenario
    scenario,   \* Scenario: the parameters handed to calculateScenario
    candidate,  \* ExtractedPeriodData: editedPeriods[selectedExtractedIndex] of the review screen
    edits,      \* number of field edits made so far (bounded by MaxEdits)
    op,         \* name of the engine function applied last ("none" before any)
    out,        \* what that function returned
    reviewScreen,  \* state of ExtractedDataReview and its correction requests in flight
    uploadPage,    \* state of UploadPage and the position of handleFileSelected
    store          \* the zustand store: company, periods, scenarios, selectedPeriodIndex

engineVars == <<previous, current, scenario, candidate, edits, op, out>>

vars == <<previous, current, scenario, candidate, edits, op, out,
          reviewScreen, uploadPage, store>>

(***************************************************************************)
(* Bounds of the model.                                                    *)
(***************************************************************************)
MaxAmount == 2
MaxEmployees == 2
MaxEdits == 2
MaxRequests == 2
MaxUpdates == 1

(***************************************************************************)
(* Exact rational arithmetic standing for JavaScript number arithmetic.    *)
(***************************************************************************)
Null == <<>>
Undefined == <<"undefined">>

\* the screens and the store are left out of the specifications of the engine
NoScreens == reviewScreen = Null /\ uploadPage = Null /\ store = Null

Abs(i) == IF i < 0 THEN -i ELSE i

RECURSIVE GCD(_, _)
GCD(a, b) == IF b = 0 THEN a ELSE GCD(b, a % b)

\* a zero denominator stands for the values that are not finite:
\* <<1, 0>> is Infinity, <<-1, 0>> is -Infinity and <<0, 0>> is NaN
Sign(i) == IF i < 0 THEN -1 ELSE IF i = 0 THEN 0 ELSE 1

Norm(num, den) ==
    IF den = 0 THEN <<Sign(num), 0>>
    ELSE LET g == GCD(Abs(num), Abs(den))
             s == IF den < 0 THEN -1 ELSE 1
         IN  <<(s * num) \div g, (s * den) \div g>>

Rat(i) == <<i, 1>>
Frac(num, den) == Norm(num, den)
Zero == Rat(0)
One == Rat(1)
Hundred == Rat(100)
NaN == <<0, 0>>
IsFinite(a) == a[2] # 0

\* sums are formed over the least common denominator
CommonDen(a, b) == IF a[2] = 0 \/ b[2] = 0 THEN 1 ELSE GCD(a[2], b[2])
Add(a, b) ==
    LET g == CommonDen(a, b)
    IN  Norm(a[1] * (b[2] \div g) + b[1] * (a[2] \div g), (a[2] \div g) * b[2])
Sub(a, b) ==
    LET g == CommonDen(a, b)
    IN  Norm(a[1] * (b[2] \div g) - b[1] * (a[2] \div g), (a[2] \div g) * b[2])
Mul(a, b) == Norm(a[1] * b[1], a[2] * b[2])
Neg(a) == <<-a[1], a[2]>>
\* a / b; a finite a over 0 is Infinity, -Infinity or NaN as in JavaScript
Div(a, b) == Norm(a[1] * b[2], a[2] * b[1])
Lt(a, b) == a[1] * b[2] < b[1] * a[2]
Le(a, b) == a[1] * b[2] <= b[1] * a[2]
IsInteger(a) == a[2] = 1

\* Math.abs
MathAbs(a) == <<Abs(a[1]), a[2]>>
\* Math.round: the integer nearest to a, halves rounded towards +Infinity
MathRound(a) == IF IsFinite(a) THEN Rat((2 * a[1] + a[2]) \div (2 * a[2])) ELSE a
\* x || 1 on a number: 0 and NaN are falsy
OrOne(a) == IF a = Zero \/ a = NaN THEN One ELSE a

(***************************************************************************)
(* Records of the program (src/src/lib/types.ts).                          *)
(***************************************************************************)
createEmptyPeriod(label) ==
    [label |-> label,
     sales |-> Zero,
     materialCost |-> Zero,
     outsourcingCost |-> Zero,
     merchandisePurchase |-> Zero,
     otherVariableCost |-> Zero,
     laborCost |-> Zero,
     depreciation |-> Zero,
     otherExpenses |-> Zero,
     nonOperatingIncome |-> Zero,
     employeeCount |-> One]

createDefaultScenario ==
    [salesChangeRate |-> Zero,
     variableCostRateChange |-> Zero,
     laborCostChangeRate |-> Zero,
     fixedCostChangeRate |-> Zero,
     employeeCount |-> One]

(***************************************************************************)
(* The calculation engine.                                                 *)
(***************************************************************************)
\* a variant that leaves merchandisePurchase out of the variable costs
totalVariableCostWithoutMerchandise(period) ==
    Add(Add(period.materialCost, period.outsourcingCost), period.otherVariableCost)

totalVariableCostOf(period) ==
    Add(Add(Add(period.materialCost, period.outsourcingCost),
            period.merchandisePurchase),
        period.otherVariableCost)

\* a variant that returns the rate as a fraction instead of a percentage
marginalProfitRateAsFraction(sales, marginalProfit) ==
    IF sales # Zero THEN Div(marginalProfit, sales) ELSE Zero

marginalProfitRateOf(sales, marginalProfit) ==
    IF sales # Zero THEN Mul(Div(marginalProfit, sales), Hundred) ELSE Zero

laborShareRateOf(laborCost, marginalProfit) ==
    IF marginalProfit # Zero THEN Mul(Div(laborCost, marginalProfit), Hundred) ELSE Zero

\* period.employeeCount taken as the divisor without its || 1 guard
empOfUnguarded(employeeCount) == employeeCount

\* const emp = period.employeeCount || 1
empOf(employeeCount) == OrOne(employeeCount)

calculateMetrics(period) ==
    LET totalVariableCost == totalVariableCostOf(period)
        marginalProfit == Sub(period.sales, totalVariableCost)
        marginalProfitRate == marginalProfitRateOf(period.sales, marginalProfit)
        totalFixedCost ==
            Add(Add(period.laborCost, period.depreciation), period.otherExpenses)
        operatingProfit == Sub(marginalProfit, totalFixedCost)
        ordinaryProfit == Add(operatingProfit, period.nonOperatingIncome)
        laborShareRate == laborShareRateOf(period.laborCost, marginalProfit)
        emp == empOf(period.employeeCount)
        salesPerEmployee == Div(period.sales, emp)
        marginalProfitPerEmployee == Div(marginalProfit, emp)
        monthlyMarginalProfitPerEmployee == Div(marginalProfitPerEmployee, Rat(12))
        ordinaryProfitPerEmployee == Div(ordinaryProfit, emp)
    IN  [totalVariableCost |-> totalVariableCost,
         marginalProfit |-> marginalProfit,
         marginalProfitRate |-> marginalProfitRate,
         totalFixedCost |-> totalFixedCost,
         operatingProfit |-> operatingProfit,
         ordinaryProfit |-> ordinaryProfit,
         laborShareRate |-> laborShareRate,
         salesPerEmployee |-> salesPerEmployee,
         marginalProfitPerEmployee |-> marginalProfitPerEmployee,
         monthlyMarginalProfitPerEmployee |-> monthlyMarginalProfitPerEmployee,
         ordinaryProfitPerEmployee |-> ordinaryProfitPerEmployee]

\* period.sales taken as the divisor without its || 1 guard
salesDivisorUnguarded(sales) == sales

\* const s = period.sales || 1
salesDivisor(sales) == OrOne(sales)

calculateCompositionRatios(period, metrics) ==
    LET s == salesDivisor(period.sales)
    IN  [materialCostRate |-> Mul(Div(period.materialCost, s), Hundred),
         outsourcingCostRate |-> Mul(Div(period.outsourcingCost, s), Hundred),
         merchandisePurchaseRate |-> Mul(Div(period.merchandisePurchase, s), Hundred),
         otherVariableCostRate |-> Mul(Div(period.otherVariableCost, s), Hundred),
         totalVariableCostRate |-> Mul(Div(metrics.totalVariableCost, s), Hundred),
         marginalProfitRate |-> Mul(Div(metrics.marginalProfit, s), Hundred),
         laborCostRate |-> Mul(Div(period.laborCost, s), Hundred),
         depreciationRate |-> Mul(Div(period.depreciation, s), Hundred),
         otherExpensesRate |-> Mul(Div(period.otherExpenses, s), Hundred),
         totalFixedCostRate |-> Mul(Div(metrics.totalFixedCost, s), Hundred),
         operatingProfitRate |-> Mul(Div(metrics.operatingProfit, s), Hundred),
         nonOperatingIncomeRate |-> Mul(Div(period.nonOperatingIncome, s), Hundred),
         ordinaryProfitRate |-> Mul(Div(metrics.ordinaryProfit, s), Hundred)]

\* the change divided by previous itself instead of Math.abs(previous)
calculateYoYChangeOverSignedPrevious(cur, prev) ==
    IF prev = Zero THEN Zero
    ELSE Mul(Div(Sub(cur, prev), prev), Hundred)

calculateYoYChange(cur, prev) ==
    IF prev = Zero THEN Zero
    ELSE Mul(Div(Sub(cur, prev), MathAbs(prev)), Hundred)

calculateWaterfallFactors(cur, prev) ==
    LET currentMetrics == calculateMetrics(cur)
        previousMetrics == calculateMetrics(prev)
        prevMarginalRate == Div(previousMetrics.marginalProfitRate, Hundred)
        currMarginalRate == Div(currentMetrics.marginalProfitRate, Hundred)
    IN  [salesContribution |->
             Mul(Sub(cur.sales, prev.sales), prevMarginalRate),
         marginalRateContribution |->
             Mul(cur.sales, Sub(currMarginalRate, prevMarginalRate)),
         fixedCostContribution |->
             Neg(Sub(currentMetrics.totalFixedCost, previousMetrics.totalFixedCost)),
         nonOperatingContribution |->
             Sub(cur.nonOperatingIncome, prev.nonOperatingIncome)]

\* diff < 0.01
BelowCent(diff) == Lt(diff, Frac(1, 100))

validateOperatingProfit(period) ==
    LET metrics == calculateMetrics(period)
        expected == Sub(metrics.marginalProfit, metrics.totalFixedCost)
        diff == MathAbs(Sub(metrics.operatingProfit, expected))
    IN  [isValid |-> BelowCent(diff), difference |-> diff]

validateOrdinaryProfit(period) ==
    LET metrics == calculateMetrics(period)
        expected == Add(metrics.operatingProfit, period.nonOperatingIncome)
        diff == MathAbs(Sub(metrics.ordinaryProfit, expected))
    IN  [isValid |-> BelowCent(diff), difference |-> diff]

\* base * (rate / 100), the factor without its 1 +
scaledByRateWithoutOne(base, rate) == Mul(base, Div(rate, Hundred))

\* base * (1 + rate / 100)
scaledByRate(base, rate) == Mul(base, Add(One, Div(rate, Hundred)))

\* the change in points added to the rate without its / 100
projectedTotalVariableCostInPoints(sales, baseVariableCostRate, variableCostRateChange) ==
    Mul(sales, Add(baseVariableCostRate, variableCostRateChange))

\* sales * (baseVariableCostRate + scenario.variableCostRateChange / 100)
projectedTotalVariableCost(sales, baseVariableCostRate, variableCostRateChange) ==
    Mul(sales, Add(baseVariableCostRate, Div(variableCostRateChange, Hundred)))

\* an empty base total spread evenly over the four lines
variableCostShareSpreadEvenly(baseLine, baseTotalVariableCost) ==
    IF baseTotalVariableCost = Zero THEN Frac(1, 4)
    ELSE Div(baseLine, baseTotalVariableCost)

\* the base line over the base total without its || 1 guard
variableCostShareUnguarded(baseLine, baseTotalVariableCost) ==
    Div(baseLine, baseTotalVariableCost)

\* basePeriod.<line> / baseTotal with baseTotal = baseMetrics.totalVariableCost || 1
variableCostShare(baseLine, baseTotalVariableCost) ==
    Div(baseLine, OrOne(baseTotalVariableCost))

\* the divisor taken from the base period instead of the scenario
scenarioEmpOfBasePeriod(basePeriod, sc) == OrOne(basePeriod.employeeCount)

\* const emp = scenario.employeeCount || 1
scenarioEmp(basePeriod, sc) == OrOne(sc.employeeCount)

\* the arguments of calculateYoYChange in the wrong order
salesChangeFromActualSwapped(sales, baseSales) == calculateYoYChange(baseSales, sales)

\* salesChangeFromActual: calculateYoYChange(sales, basePeriod.sales)
salesChangeFromActualOf(sales, baseSales) == calculateYoYChange(sales, baseSales)

calculateScenario(basePeriod, sc) ==
    LET baseMetrics == calculateMetrics(basePeriod)
        sales == scaledByRate(basePeriod.sales, sc.salesChangeRate)
        baseVariableCostRate ==
            IF basePeriod.sales # Zero
            THEN Div(baseMetrics.totalVariableCost, basePeriod.sales)
            ELSE Zero
        totalVariableCost ==
            projectedTotalVariableCost(sales, baseVariableCostRate,
                                       sc.variableCostRateChange)
        baseTotal == baseMetrics.totalVariableCost
        materialCost ==
            Mul(totalVariableCost, variableCostShare(basePeriod.materialCost, baseTotal))
        outsourcingCost ==
            Mul(totalVariableCost, variableCostShare(basePeriod.outsourcingCost, baseTotal))
        merchandisePurchase ==
            Mul(totalVariableCost,
                variableCostShare(basePeriod.merchandisePurchase, baseTotal))
        otherVariableCost ==
            Mul(totalVariableCost,
                variableCostShare(basePeriod.otherVariableCost, baseTotal))
        laborCost == scaledByRate(basePeriod.laborCost, sc.laborCostChangeRate)
        depreciation == scaledByRate(basePeriod.depreciation, sc.fixedCostChangeRate)
        otherExpenses == scaledByRate(basePeriod.otherExpenses, sc.fixedCostChangeRate)
        totalFixedCost == Add(Add(laborCost, depreciation), otherExpenses)
        marginalProfit == Sub(sales, totalVariableCost)
        marginalProfitRate ==
            IF sales # Zero THEN Mul(Div(marginalProfit, sales), Hundred) ELSE Zero
        operatingProfit == Sub(marginalProfit, totalFixedCost)
        nonOperatingIncome == basePeriod.nonOperatingIncome
        ordinaryProfit == Add(operatingProfit, nonOperatingIncome)
        emp == scenarioEmp(basePeriod, sc)
        laborShareRate ==
            IF marginalProfit # Zero
            THEN Mul(Div(laborCost, marginalProfit), Hundred)
            ELSE Zero
        baseOrdinary == baseMetrics.ordinaryProfit
    IN  [scenario |-> sc,
         sales |-> sales,
         totalVariableCost |-> totalVariableCost,
         materialCost |-> materialCost,
         outsourcingCost |-> outsourcingCost,
         merchandisePurchase |-> merchandisePurchase,
         otherVariableCost |-> otherVariableCost,
         marginalProfit |-> marginalProfit,
         marginalProfitRate |-> marginalProfitRate,
         laborCost |-> laborCost,
         depreciation |-> depreciation,
         otherExpenses |-> otherExpenses,
         totalFixedCost |-> totalFixedCost,
         operatingProfit |-> operatingProfit,
         nonOperatingIncome |-> nonOperatingIncome,
         ordinaryProfit |-> ordinaryProfit,
         laborShareRate |-> laborShareRate,
         salesPerEmployee |-> Div(sales, emp),
         marginalProfitPerEmployee |-> Div(marginalProfit, emp),
         monthlyMarginalProfitPerEmployee |-> Div(Div(marginalProfit, emp), Rat(12)),
         ordinaryProfitPerEmployee |-> Div(ordinaryProfit, emp),
         salesChangeFromActual |-> salesChangeFromActualOf(sales, basePeriod.sales),
         ordinaryProfitChangeFromActual |->
             IF baseOrdinary # Zero
             THEN calculateYoYChange(ordinaryProfit, baseOrdinary)
             ELSE Zero]

(***************************************************************************)
(* Inputs of the calculation engine.                                       *)
(***************************************************************************)
\* the worked example of the specification, in millions of yen
\* (sales 100000, material 30000, ... in thousands of yen)
ExamplePeriod ==
    [label |-> "R6",
     sales |-> Rat(100),
     materialCost |-> Rat(30),
     outsourcingCost |-> Rat(10),
     merchandisePurchase |-> Zero,
     otherVariableCost |-> Rat(5),
     laborCost |-> Rat(20),
     depreciation |-> Rat(5),
     otherExpenses |-> Rat(8),
     nonOperatingIncome |-> Rat(-1),
     employeeCount |-> Rat(10)]

PeriodSeeds == {createEmptyPeriod("P1"), ExamplePeriod}

CostFields ==
    {"sales", "materialCost", "outsourcingCost", "merchandisePurchase",
     "otherVariableCost", "laborCost", "depreciation", "otherExpenses"}
PeriodFields == CostFields \cup {"nonOperatingIncome", "employeeCount"}

AmountValues == {Rat(i) : i \in 0..MaxAmount}
SignedValues == {Rat(i) : i \in -MaxAmount..MaxAmount}
EmployeeValues == {Rat(i) : i \in -1..MaxEmployees}

PeriodValues(field) ==
    IF field = "nonOperatingIncome" THEN SignedValues
    ELSE IF field = "employeeCount" THEN EmployeeValues
    ELSE AmountValues

\* newPeriods[index] = { ...newPeriods[index], ...data } with data = { [field]: value }
updatePeriod(period, field, value) == [period EXCEPT ![field] = value]

(***************************************************************************)
(* Specification Spec: two period records are set up field by field and    *)
(* one of the period calculations is applied to them.                      *)
(***************************************************************************)
Init ==
    /\ previous \in PeriodSeeds
    /\ current \in PeriodSeeds
    /\ scenario = createDefaultScenario
    /\ candidate = Null
    /\ edits = 0
    /\ op = "none"
    /\ out = Null
    /\ NoScreens

UpdatePrevious ==
    /\ op = "none"
    /\ edits < MaxEdits
    /\ \E field \in PeriodFields : \E value \in PeriodValues(field) :
           previous' = updatePeriod(previous, field, value)
    /\ edits' = edits + 1
    /\ UNCHANGED <<current, scenario, candidate, op, out, reviewScreen, uploadPage, store>>

UpdateCurrent ==
    /\ op = "none"
    /\ edits < MaxEdits
    /\ \E field \in PeriodFields : \E value \in PeriodValues(field) :
           current' = updatePeriod(current, field, value)
    /\ edits' = edits + 1
    /\ UNCHANGED <<previous, scenario, candidate, op, out, reviewScreen, uploadPage, store>>

CalculateMetrics ==
    /\ op = "none"
    /\ op' = "calculateMetrics"
    /\ out' = calculateMetrics(current)
    /\ UNCHANGED <<previous, current, scenario, candidate, edits, reviewScreen, uploadPage, store>>

CalculateWaterfallFactors ==
    /\ op = "none"
    /\ op' = "calculateWaterfallFactors"
    /\ out' = calculateWaterfallFactors(current, previous)
    /\ UNCHANGED <<previous, current, scenario, candidate, edits, reviewScreen, uploadPage, store>>

ValidateOperatingProfit ==
    /\ op = "none"
    /\ op' = "validateOperatingProfit"
    /\ out' = validateOperatingProfit(current)
    /\ UNCHANGED <<previous, current, scenario, candidate, edits, reviewScreen, uploadPage, store>>

ValidateOrdinaryProfit ==
    /\ op = "none"
    /\ op' = "validateOrdinaryProfit"
    /\ out' = validateOrdinaryProfit(current)
    /\ UNCHANGED <<previous, current, scenario, candidate, edits, reviewScreen, uploadPage, store>>

Next ==
    \/ UpdatePrevious
    \/ UpdateCurrent
    \/ CalculateMetrics
    \/ CalculateWaterfallFactors
    \/ ValidateOperatingProfit
    \/ ValidateOrdinaryProfit

Spec == Init /\ [][Next]_vars

(***************************************************************************)
(* Claims about the period calculations, checked under Spec.               *)
(***************************************************************************)
SumOfFactors(f) ==
    Add(Add(Add(f.salesContribution, f.marginalRateContribution),
            f.fixedCostContribution),
        f.nonOperatingContribution)

OrdinaryProfitChange ==
    Sub(calculateMetrics(current).ordinaryProfit,
        calculateMetrics(previous).ordinaryProfit)

\* C1 (as claimed): for every pair of periods, also when one of them has
\* sales = 0, the four waterfall factors sum to the change of ordinary profit.
C1_FactorsSumToOrdinaryProfitChange ==
    op = "calculateWaterfallFactors" => SumOfFactors(out) = OrdinaryProfitChange

\* C1 (what the code does): the factors sum to the change of ordinary profit
\* for every pair in which a period with sales = 0 has no variable cost.
C1_FactorsSumWhenZeroSalesHasNoVariableCost ==
    (/\ op = "calculateWaterfallFactors"
     /\ current.sales = Zero => totalVariableCostOf(current) = Zero
     /\ previous.sales = Zero => totalVariableCostOf(previous) = Zero)
    => SumOfFactors(out) = OrdinaryProfitChange

\* C8: calculateMetrics returns totalVariableCost = the sum of the four
\* variable-cost lines, marginalProfit = sales - totalVariableCost,
\* totalFixedCost = laborCost + depreciation + otherExpenses, operatingProfit =
\* marginalProfit - totalFixedCost and ordinaryProfit = operatingProfit +
\* nonOperatingIncome, and both validate functions report isValid.
C8_MetricsIdentities ==
    /\ op = "calculateMetrics" =>
         /\ out.totalVariableCost =
              Add(current.materialCost,
                  Add(current.outsourcingCost,
                      Add(current.merchandisePurchase, current.otherVariableCost)))
         /\ out.marginalProfit = Sub(current.sales, out.totalVariableCost)
         /\ out.totalFixedCost =
              Add(current.laborCost, Add(current.depreciation, current.otherExpenses))
         /\ out.operatingProfit = Sub(out.marginalProfit, out.totalFixedCost)
         /\ out.ordinaryProfit = Add(out.operatingProfit, current.nonOperatingIncome)
    /\ op \in {"validateOperatingProfit", "validateOrdinaryProfit"} => out.isValid

\* C8 witness: the metrics of the worked example (marginal profit 55, fixed
\* cost 33, operating profit 22, ordinary profit 21) have been calculated.
C8_Witness ==
    /\ op = "calculateMetrics"
    /\ current = ExamplePeriod
    /\ out.totalVariableCost = Rat(45)
    /\ out.marginalProfit = Rat(55)
    /\ out.totalFixedCost = Rat(33)
    /\ out.operatingProfit = Rat(22)
    /\ out.ordinaryProfit = Rat(21)

\* C9: marginalProfitRate is 0 when sales = 0 and marginalProfit / sales * 100
\* otherwise; laborShareRate is 0 when marginalProfit = 0 and
\* laborCost / marginalProfit * 100 otherwise.
C9_RatePolicies ==
    op = "calculateMetrics" =>
        /\ current.sales = Zero => out.marginalProfitRate = Zero
        /\ current.sales # Zero =>
             Mul(out.marginalProfitRate, current.sales) = Mul(out.marginalProfit, Hundred)
        /\ out.marginalProfit = Zero => out.laborShareRate = Zero
        /\ out.marginalProfit # Zero =>
             Mul(out.laborShareRate, out.marginalProfit) = Mul(current.laborCost, Hundred)

\* C9 witness: metrics of a period with sales = 0 and a non-zero marginal profit.
C9_Witness ==
    /\ op = "calculateMetrics"
    /\ current.sales = Zero
    /\ out.marginalProfit # Zero
    /\ out.marginalProfitRate = Zero

\* max(employeeCount, 1)
FlooredEmployeeCount(period) ==
    IF Lt(period.employeeCount, One) THEN One ELSE period.employeeCount

\* C10 (as claimed): whatever employeeCount is, 0 and negative values
\* included, the per-employee values are the totals divided by
\* max(employeeCount, 1).
C10_DivisorIsFlooredEmployeeCount ==
    op = "calculateMetrics" =>
        /\ out.salesPerEmployee = Div(current.sales, FlooredEmployeeCount(current))
        /\ out.marginalProfitPerEmployee =
             Div(out.marginalProfit, FlooredEmployeeCount(current))
        /\ out.monthlyMarginalProfitPerEmployee =
             Div(Div(out.marginalProfit, FlooredEmployeeCount(current)), Rat(12))
        /\ out.ordinaryProfitPerEmployee =
             Div(out.ordinaryProfit, FlooredEmployeeCount(current))

\* C10 (what the code does): the divisor is max(employeeCount, 1) for every
\* employeeCount >= 0.
C10_DivisorFlooredForNonNegativeCount ==
    (op = "calculateMetrics" /\ Le(Zero, current.employeeCount)) =>
        /\ out.salesPerEmployee = Div(current.sales, FlooredEmployeeCount(current))
        /\ out.ordinaryProfitPerEmployee =
             Div(out.ordinaryProfit, FlooredEmployeeCount(current))

(***************************************************************************)
(* Specification SpecScenario: a base period and a scenario are set up     *)
(* field by field and calculateScenario is applied to them.                *)
(***************************************************************************)
\* the scenario of the worked example: sales +10 %, variable-cost rate -2 points
ExampleScenario ==
    [salesChangeRate |-> Rat(10),
     variableCostRateChange |-> Rat(-2),
     laborCostChangeRate |-> Zero,
     fixedCostChangeRate |-> Zero,
     employeeCount |-> Rat(10)]

ScenarioSeeds == {createDefaultScenario, ExampleScenario}

RateFields ==
    {"salesChangeRate", "variableCostRateChange", "laborCostChangeRate",
     "fixedCostChangeRate"}
ScenarioFields == RateFields \cup {"employeeCount"}

RateValues == SignedValues \cup {Rat(-100)}

\* handleChange("employeeCount", parseInt(e.target.value) || 1)
ScenarioValues(field) ==
    IF field = "employeeCount" THEN {OrOne(v) : v \in EmployeeValues} ELSE RateValues

\* newScenarios[index] = { ...newScenarios[index], ...data } with data = { [field]: value }
updateScenario(sc, field, value) == [sc EXCEPT ![field] = value]

\* the input form stores Math.abs(Number(text)), which need not be a whole number
BasePeriodSeeds ==
    PeriodSeeds \cup
        {updatePeriod(updatePeriod(createEmptyPeriod("P1"), "sales", One),
                      "materialCost", Frac(1, 2))}

InitScenario ==
    /\ previous = createEmptyPeriod("P1")
    /\ current \in BasePeriodSeeds
    /\ scenario \in ScenarioSeeds
    /\ candidate = Null
    /\ edits = 0
    /\ op = "none"
    /\ out = Null
    /\ NoScreens

UpdateScenario ==
    /\ op = "none"
    /\ edits < MaxEdits
    /\ \E field \in ScenarioFields : \E value \in ScenarioValues(field) :
           scenario' = updateScenario(scenario, field, value)
    /\ edits' = edits + 1
    /\ UNCHANGED <<previous, current, candidate, op, out, reviewScreen, uploadPage, store>>

CalculateScenario ==
    /\ op = "none"
    /\ op' = "calculateScenario"
    /\ out' = calculateScenario(current, scenario)
    /\ UNCHANGED <<previous, current, scenario, candidate, edits, reviewScreen, uploadPage, store>>

NextScenario ==
    \/ UpdateCurrent
    \/ UpdateScenario
    \/ CalculateScenario

SpecScenario == InitScenario /\ [][NextScenario]_vars

(***************************************************************************)
(* Claims about calculateScenario, checked under SpecScenario.             *)
(***************************************************************************)
NeutralScenario ==
    /\ \A field \in RateFields : scenario[field] = Zero
    /\ scenario.employeeCount = current.employeeCount

MetricsFields ==
    {"totalVariableCost", "marginalProfit", "marginalProfitRate", "totalFixedCost",
     "operatingProfit", "ordinaryProfit", "laborShareRate", "salesPerEmployee",
     "marginalProfitPerEmployee", "monthlyMarginalProfitPerEmployee",
     "ordinaryProfitPerEmployee"}

RawLines == CostFields \cup {"nonOperatingIncome"}

ReproducesBase ==
    /\ \A field \in MetricsFields : out[field] = calculateMetrics(current)[field]
    /\ \A field \in RawLines : out[field] = current[field]

\* C2 (as claimed): with all four rates 0 and the base period's employeeCount,
\* calculateScenario returns the metrics of calculateMetrics(base) and the nine
\* raw lines of base, also when base.sales = 0.
C2_NeutralScenarioReproducesBase ==
    (op = "calculateScenario" /\ NeutralScenario) => ReproducesBase

\* C2 (what the code does): the neutral scenario reproduces the base period
\* whenever base.sales # 0 or the base period has no variable cost.
C2_NeutralScenarioReproducesBaseWithSales ==
    (/\ op = "calculateScenario"
     /\ NeutralScenario
     /\ current.sales # Zero \/ totalVariableCostOf(current) = Zero)
    => ReproducesBase

(***************************************************************************)
(* The reconciliation step of the review screen                            *)
(* (src/src/components/layout/Header.tsx).                                 *)
(***************************************************************************)
\* val ?? 0
n(val) == IF val = Null \/ val = Undefined THEN Zero ELSE val

\* a variant that leaves nonOperatingIncome out of the computed profit
candidateOperatingProfit(data) ==
    LET sales == n(data.sales)
        totalVariable ==
            Add(Add(Add(n(data.materialCost), n(data.outsourcingCost)),
                    n(data.merchandisePurchase)),
                n(data.otherVariableCost))
        marginalProfit == Sub(sales, totalVariable)
    IN  Sub(Sub(Sub(marginalProfit, n(data.laborCost)), n(data.depreciation)),
            n(data.otherExpenses))

\* the ordinary profit validateAndFix computes from the candidate's fields
candidateOrdinaryProfit(data) ==
    LET sales == n(data.sales)
        totalVariable ==
            Add(Add(Add(n(data.materialCost), n(data.outsourcingCost)),
                    n(data.merchandisePurchase)),
                n(data.otherVariableCost))
        marginalProfit == Sub(sales, totalVariable)
        operatingProfit ==
            Sub(Sub(Sub(marginalProfit, n(data.laborCost)), n(data.depreciation)),
                n(data.otherExpenses))
    IN  Add(operatingProfit, n(data.nonOperatingIncome))

\* a variant whose tolerance includes a difference of exactly 1
withinToleranceInclusive(diff) == Le(MathAbs(diff), One)

\* Math.abs(diff) < 1
withinTolerance(diff) == Lt(MathAbs(diff), One)

\* a variant that moves otherExpenses the wrong way
adjustedOtherExpensesSubtracting(data, diff) == Sub(n(data.otherExpenses), diff)

adjustedOtherExpenses(data, diff) == Add(n(data.otherExpenses), diff)

\* a variant that rebuilds the record and loses the notes
withOtherExpensesLosingNotes(data, value) ==
    [data EXCEPT !.otherExpenses = value, !.notes = <<>>]

\* { ...data, otherExpenses: value }
withOtherExpenses(data, value) == [data EXCEPT !.otherExpenses = value]

\* a variant that counts a missing control total as 0 instead of returning
validateAndFixCountingNullAsZero(data) ==
    LET pdfOrdinary == n(data.ordinaryProfitFromPdf)
        diff == Sub(candidateOrdinaryProfit(data), pdfOrdinary)
    IN  IF withinTolerance(diff) THEN data
        ELSE withOtherExpenses(data, MathRound(adjustedOtherExpenses(data, diff)))

validateAndFix(data) ==
    LET pdfOrdinary == data.ordinaryProfitFromPdf
    IN  IF pdfOrdinary = Null \/ pdfOrdinary = Undefined THEN data
        ELSE LET diff == Sub(candidateOrdinaryProfit(data), pdfOrdinary)
             IN  IF withinTolerance(diff) THEN data
                 ELSE withOtherExpenses(data,
                                        MathRound(adjustedOtherExpenses(data, diff)))

\* the keys of `fields`: what the review screen lets the user edit
ReviewFields == PeriodFields

\* an extraction result in which nothing was recognised
EmptyExtracted(pdfOrdinary) ==
    [label |-> "",
     sales |-> Null,
     materialCost |-> Null,
     outsourcingCost |-> Null,
     merchandisePurchase |-> Null,
     otherVariableCost |-> Null,
     laborCost |-> Null,
     depreciation |-> Null,
     otherExpenses |-> Null,
     nonOperatingIncome |-> Null,
     employeeCount |-> Null,
     ordinaryProfitFromPdf |-> pdfOrdinary,
     confidence |-> << >>,
     breakdown |-> << >>,
     notes |-> << >>]

\* the worked example as an extraction result
ExampleExtracted(pdfOrdinary) ==
    [label |-> "R6",
     sales |-> Rat(100),
     materialCost |-> Rat(30),
     outsourcingCost |-> Rat(10),
     merchandisePurchase |-> Null,
     otherVariableCost |-> Rat(5),
     laborCost |-> Rat(20),
     depreciation |-> Rat(5),
     otherExpenses |-> Rat(8),
     nonOperatingIncome |-> Rat(-1),
     employeeCount |-> Rat(10),
     ordinaryProfitFromPdf |-> pdfOrdinary,
     confidence |-> <<"otherExpenses", "low">>,
     breakdown |-> <<"laborCost", "15 + 5 = 20">>,
     notes |-> <<"unit: million yen">>]

ReviewValues == {Rat(i) : i \in -1..MaxAmount} \cup {Frac(1, 2)}

PdfValues == {Null, Undefined} \cup ReviewValues

CandidateSeeds ==
    {EmptyExtracted(pdf) : pdf \in PdfValues}
        \cup {ExampleExtracted(pdf) : pdf \in {Null, Rat(21), Rat(25), Frac(41, 2)}}

\* what the user can leave in an input of the review screen: nothing, a
\* numeral, or text that Number() turns into NaN
RawValues ==
    {[kind |-> "empty"], [kind |-> "text"]}
        \cup {[kind |-> "numeral", num |-> v] : v \in ReviewValues}

\* cleaned === "" gives null, a NaN keeps the current value, a number is stored
handleFieldChange(data, key, rawValue) ==
    [data EXCEPT ![key] =
        IF rawValue.kind = "empty" THEN Null
        ELSE IF rawValue.kind = "text" THEN @
        ELSE rawValue.num]

(***************************************************************************)
(* Specification SpecReview: a candidate delivered by the extraction is    *)
(* edited field by field and validateAndFix is applied to it, and once     *)
(* more to its own result.                                                 *)
(***************************************************************************)
InitReview ==
    /\ previous = createEmptyPeriod("P1")
    /\ current = createEmptyPeriod("P2")
    /\ scenario = createDefaultScenario
    /\ candidate \in CandidateSeeds
    /\ edits = 0
    /\ op = "none"
    /\ out = Null
    /\ NoScreens

HandleFieldChange ==
    /\ op = "none"
    /\ edits < MaxEdits
    /\ \E key \in ReviewFields : \E rawValue \in RawValues :
           candidate' = handleFieldChange(candidate, key, rawValue)
    /\ edits' = edits + 1
    /\ UNCHANGED <<previous, current, scenario, op, out, reviewScreen, uploadPage, store>>

ValidateAndFix ==
    /\ op = "none"
    /\ op' = "validateAndFix"
    /\ out' = validateAndFix(candidate)
    /\ UNCHANGED <<previous, current, scenario, candidate, edits, reviewScreen, uploadPage, store>>

ValidateAndFixAgain ==
    /\ op = "validateAndFix"
    /\ op' = "validateAndFixTwice"
    /\ out' = [once |-> out, twice |-> validateAndFix(out)]
    /\ UNCHANGED <<previous, current, scenario, candidate, edits, reviewScreen, uploadPage, store>>

NextReview ==
    \/ HandleFieldChange
    \/ ValidateAndFix
    \/ ValidateAndFixAgain

SpecReview == InitReview /\ [][NextReview]_vars

(***************************************************************************)
(* Claims about validateAndFix, checked under SpecReview.                  *)
(***************************************************************************)
HasControlTotal(data) ==
    data.ordinaryProfitFromPdf # Null /\ data.ordinaryProfitFromPdf # Undefined

\* sales - four variable costs - laborCost - depreciation - otherExpenses
\* + nonOperatingIncome, null fields counted as 0
RecomputedOrdinaryProfit(data) ==
    Add(Sub(Sub(Sub(Sub(Sub(Sub(Sub(n(data.sales), n(data.materialCost)),
                                n(data.outsourcingCost)),
                            n(data.merchandisePurchase)),
                        n(data.otherVariableCost)),
                    n(data.laborCost)),
                n(data.depreciation)),
            n(data.otherExpenses)),
        n(data.nonOperatingIncome))

\* computed - reported, for a candidate with a control total
Discrepancy(data) == Sub(RecomputedOrdinaryProfit(data), data.ordinaryProfitFromPdf)

CandidateKeys == DOMAIN EmptyExtracted(Null)

\* C3: validateAndFix is idempotent: applied to its own result it returns
\* that result, for candidates with null, integer or fractional fields, with
\* or without a control total.
C3_ValidateAndFixIdempotent ==
    op = "validateAndFixTwice" => out.twice = out.once

\* C3 witness: validateAndFix was applied twice to a candidate that it
\* corrected, the discrepancy being no integer.
C3_Witness ==
    /\ op = "validateAndFixTwice"
    /\ out.once # candidate
    /\ ~IsInteger(Discrepancy(candidate))

\* C4: for a candidate with a control total, all of whose numeric fields
\* (the control total among them) are integers or null, the ordinary profit
\* recomputed from the result of validateAndFix equals the control total.
C4_ReconciledMatchesControlTotal ==
    (/\ op = "validateAndFix"
     /\ HasControlTotal(candidate)
     /\ IsInteger(candidate.ordinaryProfitFromPdf)
     /\ \A key \in ReviewFields : IsInteger(n(candidate[key])))
    => RecomputedOrdinaryProfit(out) = candidate.ordinaryProfitFromPdf

\* C4 witness: the worked example: otherExpenses 8 and a reported ordinary
\* profit of 25 against a computed 21 give otherExpenses 4.
C4_Witness ==
    /\ op = "validateAndFix"
    /\ candidate = ExampleExtracted(Rat(25))
    /\ out.otherExpenses = Rat(4)
    /\ RecomputedOrdinaryProfit(out) = Rat(25)

\* C5: a step that applies validateAndFix leaves the candidate it was given
\* as it is, and its result differs from that candidate in no field other
\* than otherExpenses.
C5_OnlyOtherExpensesChanges ==
    [][(op = "none" /\ op' = "validateAndFix") =>
          /\ candidate' = candidate
          /\ DOMAIN out' = CandidateKeys
          /\ \A key \in CandidateKeys \ {"otherExpenses"} : out'[key] = candidate[key]]_vars

\* C5 witness: validateAndFix has corrected a candidate that carries a label,
\* confidence tags, a breakdown, notes and a null field.
C5_Witness ==
    /\ op = "validateAndFix"
    /\ out.otherExpenses # candidate.otherExpenses
    /\ candidate.notes # << >>
    /\ candidate.merchandisePurchase = Null

\* C6: without a control total (null or undefined) validateAndFix returns
\* the candidate with every field unchanged.
C6_NoControlTotalNoChange ==
    (op = "validateAndFix" /\ ~HasControlTotal(candidate)) => out = candidate

\* C6 witness: validateAndFix was applied to a candidate without a control
\* total whose fields give a non-zero ordinary profit.
C6_Witness ==
    /\ op = "validateAndFix"
    /\ candidate.ordinaryProfitFromPdf = Undefined
    /\ ~withinTolerance(RecomputedOrdinaryProfit(candidate))

\* C7: with a control total, a discrepancy below 1 in absolute value leaves
\* the candidate unchanged, and a discrepancy of 1 or more changes
\* otherExpenses, and nothing else, to round(otherExpenses + discrepancy).
C7_ToleranceAndCorrection ==
    (op = "validateAndFix" /\ HasControlTotal(candidate)) =>
        IF Lt(MathAbs(Discrepancy(candidate)), One)
        THEN out = candidate
        ELSE /\ out =
                  [candidate EXCEPT !.otherExpenses =
                      MathRound(Add(n(candidate.otherExpenses), Discrepancy(candidate)))]
             /\ out.otherExpenses # candidate.otherExpenses

\* C7 witness: a discrepancy of exactly 1 or -1 has been corrected.
C7_Witness ==
    /\ op = "validateAndFix"
    /\ HasControlTotal(candidate)
    /\ MathAbs(Discrepancy(candidate)) = One
    /\ out.otherExpenses # candidate.otherExpenses

\* C7, second case: a non-zero discrepancy below 1 has been left alone.
C7_WitnessBelowTolerance ==
    /\ op = "validateAndFix"
    /\ HasControlTotal(candidate)
    /\ Discrepancy(candidate) # Zero
    /\ out = candidate

(***************************************************************************)
(* The comparison table of two periods: composition ratios and the         *)
(* year-over-year change of every row.                                     *)
(***************************************************************************)
\* the rows of the table that are lines of the period record
PeriodRows ==
    {"sales", "materialCost", "outsourcingCost", "merchandisePurchase",
     "otherVariableCost", "laborCost", "otherExpenses", "depreciation",
     "nonOperatingIncome"}

\* the rows of the table that are aggregates of the metrics
MetricsRows ==
    {"totalVariableCost", "marginalProfit", "totalFixedCost", "operatingProfit",
     "ordinaryProfit"}

ComparisonRows == PeriodRows \cup MetricsRows

\* prevVal / currVal of a row
rowVal(period, metrics, row) ==
    IF row \in PeriodRows THEN period[row] ELSE metrics[row]

\* the input form stores Math.abs(Number(text)), which need not be a whole number
ComparisonSeeds ==
    PeriodSeeds \cup {updatePeriod(createEmptyPeriod("P1"), "sales", Frac(1, 2))}

InitComparison ==
    /\ previous \in PeriodSeeds
    /\ current \in ComparisonSeeds
    /\ scenario = createDefaultScenario
    /\ candidate = Null
    /\ edits = 0
    /\ op = "none"
    /\ out = Null
    /\ NoScreens

CalculateCompositionRatios ==
    /\ op = "none"
    /\ op' = "calculateCompositionRatios"
    /\ out' = calculateCompositionRatios(current, calculateMetrics(current))
    /\ UNCHANGED <<previous, current, scenario, candidate, edits, reviewScreen, uploadPage, store>>

CalculateYoYChange ==
    /\ op = "none"
    /\ op' = "calculateYoYChange"
    /\ LET currMetrics == calculateMetrics(current)
           prevMetrics == calculateMetrics(previous)
       IN  out' = [row \in ComparisonRows |->
                      calculateYoYChange(rowVal(current, currMetrics, row),
                                         rowVal(previous, prevMetrics, row))]
    /\ UNCHANGED <<previous, current, scenario, candidate, edits, reviewScreen, uploadPage, store>>

\* the previous period is one of the seeds; the current period is edited
NextComparison ==
    \/ UpdateCurrent
    \/ CalculateCompositionRatios
    \/ CalculateYoYChange

SpecComparison == InitComparison /\ [][NextComparison]_vars

(***************************************************************************)
(* Claims about the comparison table, checked under SpecComparison.        *)
(***************************************************************************)
RatMax(a, b) == IF Lt(a, b) THEN b ELSE a

\* the amount each of the thirteen rates is a share of
RateAmounts(period, metrics) ==
    [materialCostRate |-> period.materialCost,
     outsourcingCostRate |-> period.outsourcingCost,
     merchandisePurchaseRate |-> period.merchandisePurchase,
     otherVariableCostRate |-> period.otherVariableCost,
     totalVariableCostRate |-> metrics.totalVariableCost,
     marginalProfitRate |-> metrics.marginalProfit,
     laborCostRate |-> period.laborCost,
     depreciationRate |-> period.depreciation,
     otherExpensesRate |-> period.otherExpenses,
     totalFixedCostRate |-> metrics.totalFixedCost,
     operatingProfitRate |-> metrics.operatingProfit,
     nonOperatingIncomeRate |-> period.nonOperatingIncome,
     ordinaryProfitRate |-> metrics.ordinaryProfit]

\* C11 as stated: each of the thirteen rates of calculateCompositionRatios is
\* the corresponding raw or aggregate amount divided by max(sales, 1) and
\* multiplied by 100; with sales = 0 each rate is the amount times 100 and
\* every rate is a finite number.
C11_RatesOverSalesFlooredAtOne ==
    op = "calculateCompositionRatios" =>
        LET amounts == RateAmounts(current, calculateMetrics(current))
        IN  /\ DOMAIN out = DOMAIN amounts
            /\ Cardinality(DOMAIN out) = 13
            /\ \A rate \in DOMAIN out :
                   /\ IsFinite(out[rate])
                   /\ out[rate] =
                          Mul(Div(amounts[rate], RatMax(current.sales, One)), Hundred)
                   /\ current.sales = Zero => out[rate] = Mul(amounts[rate], Hundred)

\* C11 amended: the divisor is sales itself, and 1 only when sales is 0.
C11_RatesOverSalesOrOne ==
    op = "calculateCompositionRatios" =>
        LET amounts == RateAmounts(current, calculateMetrics(current))
            divisor == IF current.sales = Zero THEN One ELSE current.sales
        IN  /\ DOMAIN out = DOMAIN amounts
            /\ Cardinality(DOMAIN out) = 13
            /\ \A rate \in DOMAIN out :
                   /\ IsFinite(out[rate])
                   /\ out[rate] = Mul(Div(amounts[rate], divisor), Hundred)
                   /\ current.sales = Zero => out[rate] = Mul(amounts[rate], Hundred)

\* sales is 0 beside a cost, so a rate is the raw amount times 100
C11_Witness ==
    /\ op = "calculateCompositionRatios"
    /\ current.sales = Zero
    /\ current.materialCost = Rat(2)
    /\ out.materialCostRate = Rat(200)
    /\ out.marginalProfitRate = Rat(-200)

\* sales is positive, so a rate is a percentage of sales
C11_WitnessWithSales ==
    /\ op = "calculateCompositionRatios"
    /\ current = ExamplePeriod
    /\ out.totalVariableCostRate = Rat(45)
    /\ out.ordinaryProfitRate = Rat(21)

\* C12: calculateYoYChange(current, previous) is 0 whenever previous = 0 and
\* (current - previous) / |previous| * 100 otherwise, so that for
\* previous # 0 the result has the sign of current - previous, also when
\* previous is negative.
C12_YoYChangeOverAbsolutePrevious ==
    op = "calculateYoYChange" =>
        LET currMetrics == calculateMetrics(current)
            prevMetrics == calculateMetrics(previous)
        IN  \A row \in ComparisonRows :
                LET cur == rowVal(current, currMetrics, row)
                    prev == rowVal(previous, prevMetrics, row)
                IN  /\ prev = Zero => out[row] = Zero
                    /\ prev # Zero =>
                           /\ out[row] =
                                  Mul(Div(Sub(cur, prev), MathAbs(prev)), Hundred)
                           /\ Sign(out[row][1]) = Sign(Sub(cur, prev)[1])

\* a negative previous value and a larger current value: the change is positive
C12_Witness ==
    /\ op = "calculateYoYChange"
    /\ Lt(previous.nonOperatingIncome, Zero)
    /\ Lt(previous.nonOperatingIncome, current.nonOperatingIncome)
    /\ Lt(Zero, out["nonOperatingIncome"])

\* previous is 0 beside a non-zero current value: the change is reported as 0
C12_WitnessZeroPrevious ==
    /\ op = "calculateYoYChange"
    /\ previous.sales = Zero
    /\ current.sales # Zero
    /\ out["sales"] = Zero

(***************************************************************************)
(* Claims about the projection of calculateScenario, checked under         *)
(* SpecScenario: current is the base period, out the scenario result.      *)
(***************************************************************************)
BaseTotalVariableCost ==
    Add(Add(Add(current.materialCost, current.outsourcingCost),
            current.merchandisePurchase), current.otherVariableCost)

BaseVariableCostRate ==
    IF current.sales = Zero THEN Zero ELSE Div(BaseTotalVariableCost, current.sales)

OnePlusPercent(rate) == Add(One, Div(rate, Hundred))

VariableCostLines ==
    {"materialCost", "outsourcingCost", "merchandisePurchase", "otherVariableCost"}

SumOfProjectedLines ==
    Add(Add(Add(out.materialCost, out.outsourcingCost), out.merchandisePurchase),
        out.otherVariableCost)

\* C13: calculateScenario returns sales = base.sales * (1 + salesChangeRate/100)
\* and totalVariableCost = projected sales * (baseVariableCostRate +
\* variableCostRateChange/100), where baseVariableCostRate is base
\* totalVariableCost / base.sales, or 0 when base.sales = 0; the worked example
\* (sales 100, variable cost 45, +10 %, -2 points) gives 110 and 47.3.
C13_ProjectedSalesAndVariableCost ==
    op = "calculateScenario" =>
        /\ out.sales = Mul(current.sales, OnePlusPercent(scenario.salesChangeRate))
        /\ out.totalVariableCost =
               Mul(out.sales,
                   Add(BaseVariableCostRate, Div(scenario.variableCostRateChange, Hundred)))
        /\ (/\ current.sales = Rat(100)
            /\ BaseTotalVariableCost = Rat(45)
            /\ scenario.salesChangeRate = Rat(10)
            /\ scenario.variableCostRateChange = Rat(-2))
           => (out.sales = Rat(110) /\ out.totalVariableCost = Frac(473, 10))

\* the worked example has been projected
C13_Witness ==
    /\ op = "calculateScenario"
    /\ current = ExamplePeriod
    /\ scenario.salesChangeRate = Rat(10)
    /\ scenario.variableCostRateChange = Rat(-2)
    /\ out.sales = Rat(110)
    /\ out.totalVariableCost = Frac(473, 10)

\* C17 as stated: each projected variable-cost sub-line is the projected
\* totalVariableCost * (base sub-line / max(base totalVariableCost, 1)), and
\* whenever the base totalVariableCost is not 0 the four projected sub-lines
\* sum to the projected totalVariableCost.
C17_LinesOverBaseTotalFlooredAtOne ==
    op = "calculateScenario" =>
        /\ \A line \in VariableCostLines :
               out[line] =
                   Mul(out.totalVariableCost,
                       Div(current[line], RatMax(BaseTotalVariableCost, One)))
        /\ BaseTotalVariableCost # Zero => SumOfProjectedLines = out.totalVariableCost

\* C17 amended: the divisor of the share is the base totalVariableCost itself,
\* and 1 only when the base totalVariableCost is 0.
C17_LinesOverBaseTotalOrOne ==
    op = "calculateScenario" =>
        LET divisor ==
                IF BaseTotalVariableCost = Zero THEN One ELSE BaseTotalVariableCost
        IN  /\ \A line \in VariableCostLines :
                   out[line] = Mul(out.totalVariableCost, Div(current[line], divisor))
            /\ BaseTotalVariableCost # Zero =>
                   SumOfProjectedLines = out.totalVariableCost

\* a base period with two variable-cost lines, projected to another total
C17_Witness ==
    /\ op = "calculateScenario"
    /\ current.materialCost # Zero
    /\ current.outsourcingCost # Zero
    /\ out.totalVariableCost # BaseTotalVariableCost
    /\ out.totalVariableCost # Zero
    /\ SumOfProjectedLines = out.totalVariableCost

C19_FixedCostsAndNonOperatingIncome ==
    op = "calculateScenario" =>
        /\ out.laborCost =
               Mul(current.laborCost, OnePlusPercent(scenario.laborCostChangeRate))
        /\ out.depreciation =
               Mul(current.depreciation, OnePlusPercent(scenario.fixedCostChangeRate))
        /\ out.otherExpenses =
               Mul(current.otherExpenses, OnePlusPercent(scenario.fixedCostChangeRate))
        /\ out.nonOperatingIncome = current.nonOperatingIncome

\* labour and the other fixed costs move by different rates
C19_Witness ==
    /\ op = "calculateScenario"
    /\ current = ExamplePeriod
    /\ scenario.laborCostChangeRate # Zero
    /\ scenario.fixedCostChangeRate # Zero
    /\ scenario.laborCostChangeRate # scenario.fixedCostChangeRate
    /\ out.laborCost # current.laborCost
    /\ out.depreciation # current.depreciation
    /\ out.nonOperatingIncome = Rat(-1)

\* the period record made of the nine projected lines and the scenario's
\* employeeCount
ProjectedPeriod ==
    [label |-> current.label,
     sales |-> out.sales,
     materialCost |-> out.materialCost,
     outsourcingCost |-> out.outsourcingCost,
     merchandisePurchase |-> out.merchandisePurchase,
     otherVariableCost |-> out.otherVariableCost,
     laborCost |-> out.laborCost,
     depreciation |-> out.depreciation,
     otherExpenses |-> out.otherExpenses,
     nonOperatingIncome |-> out.nonOperatingIncome,
     employeeCount |-> scenario.employeeCount]

AgreesWithMetricsOfProjectedPeriod ==
    LET projectedMetrics == calculateMetrics(ProjectedPeriod)
    IN  \A field \in MetricsFields : out[field] = projectedMetrics[field]

MarginalProfitChange ==
    Sub(calculateMetrics(current).marginalProfit,
        calculateMetrics(previous).marginalProfit)

TotalFixedCostChange ==
    Sub(calculateMetrics(current).totalFixedCost,
        calculateMetrics(previous).totalFixedCost)

FixedAndNonOperatingParts ==
    /\ out.fixedCostContribution = Neg(TotalFixedCostChange)
    /\ out.nonOperatingContribution =
           Sub(current.nonOperatingIncome, previous.nonOperatingIncome)

\* C16 as stated: for every pair of period records salesContribution +
\* marginalRateContribution = marginalProfit(current) - marginalProfit(previous),
\* fixedCostContribution = -(totalFixedCost(current) - totalFixedCost(previous))
\* and nonOperatingContribution = nonOperatingIncome(current) -
\* nonOperatingIncome(previous).
C16_FactorsMatchTheirParts ==
    op = "calculateWaterfallFactors" =>
        /\ Add(out.salesContribution, out.marginalRateContribution) =
               MarginalProfitChange
        /\ FixedAndNonOperatingParts

\* C16, what the code does: the fixed-cost and non-operating parts always hold;
\* the two sales factors sum to the marginal-profit change whenever each period
\* with sales = 0 has no variable cost.
C16_FactorsMatchTheirPartsWhenZeroSalesHasNoVariableCost ==
    op = "calculateWaterfallFactors" =>
        /\ FixedAndNonOperatingParts
        /\ (/\ previous.sales = Zero => totalVariableCostOf(previous) = Zero
            /\ current.sales = Zero => totalVariableCostOf(current) = Zero)
           => Add(out.salesContribution, out.marginalRateContribution) =
                  MarginalProfitChange

(***************************************************************************)
(* The engine functions as total functions: each is applied to inputs      *)
(* drawn from the whole-number edge cases (zero, negative, null).  The     *)
(* inputs a function does not read are Null.                               *)
(***************************************************************************)
EdgeAmounts == {Rat(i) : i \in -1..MaxAmount}
EdgeEmployees == {Rat(-1), Zero, Rat(MaxEmployees)}
EdgeRates == {Rat(-100), Rat(-1), Zero, Rat(MaxAmount)}
EdgeCandidateValues == {Null} \cup EdgeAmounts

EdgePeriodValues(field) ==
    IF field = "employeeCount" THEN EdgeEmployees ELSE EdgeAmounts

EdgeScenarioValues(field) ==
    IF field = "employeeCount" THEN EdgeEmployees ELSE EdgeRates

NumericKeys == ReviewFields \cup {"ordinaryProfitFromPdf"}

InitPeriodFunctions ==
    /\ previous \in PeriodSeeds
    /\ current \in PeriodSeeds
    /\ scenario = Null
    /\ candidate = Null

InitScenarioFunction ==
    /\ previous = Null
    /\ current \in PeriodSeeds
    /\ scenario \in ScenarioSeeds
    /\ candidate = Null

InitReviewFunction ==
    /\ previous = Null
    /\ current = Null
    /\ scenario = Null
    /\ candidate \in {EmptyExtracted(Null), ExampleExtracted(Rat(25))}

InitTotal ==
    /\ InitPeriodFunctions \/ InitScenarioFunction \/ InitReviewFunction
    /\ edits = 0
    /\ op = "none"
    /\ out = Null
    /\ NoScreens

DrawPeriod ==
    /\ op = "none"
    /\ edits < MaxEdits
    /\ current # Null
    /\ \E field \in PeriodFields : \E value \in EdgePeriodValues(field) :
           current' = [current EXCEPT ![field] = value]
    /\ edits' = edits + 1
    /\ UNCHANGED <<previous, scenario, candidate, op, out, reviewScreen, uploadPage, store>>

DrawScenario ==
    /\ op = "none"
    /\ edits < MaxEdits
    /\ scenario # Null
    /\ \E field \in ScenarioFields : \E value \in EdgeScenarioValues(field) :
           scenario' = [scenario EXCEPT ![field] = value]
    /\ edits' = edits + 1
    /\ UNCHANGED <<previous, current, candidate, op, out, reviewScreen, uploadPage, store>>

DrawCandidate ==
    /\ op = "none"
    /\ edits < MaxEdits
    /\ candidate # Null
    /\ \E key \in NumericKeys : \E value \in EdgeCandidateValues :
           candidate' = [candidate EXCEPT ![key] = value]
    /\ edits' = edits + 1
    /\ UNCHANGED <<previous, current, scenario, op, out, reviewScreen, uploadPage, store>>

PeriodFunctions ==
    /\ previous # Null
    /\ \/ CalculateMetrics
       \/ CalculateCompositionRatios
       \/ CalculateYoYChange
       \/ CalculateWaterfallFactors

ScenarioFunction ==
    /\ scenario # Null
    /\ CalculateScenario

ReviewFunction ==
    /\ candidate # Null
    /\ ValidateAndFix

NextTotal ==
    \/ DrawPeriod
    \/ DrawScenario
    \/ DrawCandidate
    \/ PeriodFunctions
    \/ ScenarioFunction
    \/ ReviewFunction

SpecTotal == InitTotal /\ [][NextTotal]_vars

(***************************************************************************)
(* Claims about totality, checked under SpecTotal.                         *)
(***************************************************************************)
NumbersOf(result) ==
    IF op = "calculateScenario" THEN DOMAIN result \ {"scenario"}
    ELSE IF op = "validateAndFix" THEN NumericKeys
    ELSE DOMAIN result

\* C14: no engine function divides by zero or fails on a whole-number input,
\* including zero sales, zero variable cost, zero employeeCount,
\* salesChangeRate = -100, negative amounts and null candidate fields: every
\* call returns a result whose numbers are all finite.
C14_EveryResultIsFinite ==
    op # "none" =>
        /\ out # Null
        /\ NumbersOf(out) # {}
        /\ \A field \in NumbersOf(out) : out[field] = Null \/ IsFinite(out[field])

\* sales projected to 0 by salesChangeRate = -100, divided by employeeCount 0
C14_Witness ==
    /\ op = "calculateScenario"
    /\ scenario.salesChangeRate = Rat(-100)
    /\ scenario.employeeCount = Zero
    /\ out.sales = Zero
    /\ out.marginalProfitRate = Zero
    /\ out.salesPerEmployee = Zero

\* zero sales and zero employeeCount beside a negative amount
C14_WitnessMetrics ==
    /\ op = "calculateMetrics"
    /\ current.sales = Zero
    /\ current.employeeCount = Zero
    /\ \E field \in CostFields : Lt(current[field], Zero)

\* variable-cost lines that cancel to a total of 0
C14_WitnessCancellingLines ==
    /\ op = "calculateScenario"
    /\ current.materialCost = Rat(-1)
    /\ totalVariableCostOf(current) = Zero

\* a candidate whose fields are all null
C14_WitnessNullCandidate ==
    /\ op = "validateAndFix"
    /\ \A key \in ReviewFields : candidate[key] = Null

(***************************************************************************)
(* Saving a reviewed candidate (src/unnamed/part_000 and the save buttons  *)
(* of the review screen).  candidate is the record under review, current   *)
(* the stored period at the target index.                                  *)
(***************************************************************************)
\* the candidate handed to the save handler without reconciliation
reviewedForSaveUnreconciled(data) == data

\* onSaveAndContinue(targetIndex, validateAndFix(data)) and
\* onSaveAndFinish(targetIndex, validateAndFix(data))
reviewedForSave(data) == validateAndFix(data)

\* `第${targetIndex + 1}期` for the first period
FallbackLabel == "period 1"

\* val !== null && val !== undefined ? val : 0
orZero(val) == IF val # Null /\ val # Undefined THEN val ELSE Zero

\* savePeriod followed by the merge of updatePeriod: every field of the
\* stored period is overwritten
savePeriod(period, data) ==
    LET employeeCount == orZero(data.employeeCount)
    IN  [label |->
             IF data.label # "" THEN data.label
             ELSE IF period.label # "" THEN period.label
             ELSE FallbackLabel,
         sales |-> orZero(data.sales),
         materialCost |-> orZero(data.materialCost),
         outsourcingCost |-> orZero(data.outsourcingCost),
         merchandisePurchase |-> orZero(data.merchandisePurchase),
         otherVariableCost |-> orZero(data.otherVariableCost),
         laborCost |-> orZero(data.laborCost),
         depreciation |-> orZero(data.depreciation),
         otherExpenses |-> orZero(data.otherExpenses),
         nonOperatingIncome |-> orZero(data.nonOperatingIncome),
         employeeCount |-> IF Lt(employeeCount, One) THEN One ELSE employeeCount]

\* the candidates an extraction or an AI correction delivers
SaveSeeds ==
    {EmptyExtracted(Null), EmptyExtracted(One), ExampleExtracted(Rat(21)),
     ExampleExtracted(Rat(25)), ExampleExtracted(Frac(41, 2))}

InitSave ==
    /\ previous = createEmptyPeriod("P1")
    /\ current = createEmptyPeriod("P2")
    /\ scenario = createDefaultScenario
    /\ candidate \in SaveSeeds
    /\ edits = 0
    /\ op = "none"
    /\ out = Null
    /\ NoScreens

\* the response of the correction request replaces the candidate
HandleCorrection ==
    /\ op = "none"
    /\ edits < MaxEdits
    /\ \E result \in SaveSeeds : candidate' = result
    /\ edits' = edits + 1
    /\ UNCHANGED <<previous, current, scenario, op, out, reviewScreen, uploadPage, store>>

\* the review screen is left: extractedPeriods becomes []
SaveAndContinue ==
    /\ op = "none"
    /\ op' = "saveAndContinue"
    /\ out' = reviewedForSave(candidate)
    /\ current' = savePeriod(current, out')
    /\ candidate' = Null
    /\ UNCHANGED <<previous, scenario, edits, reviewScreen, uploadPage, store>>

\* the review screen is left for the input page
SaveAndFinish ==
    /\ op = "none"
    /\ op' = "saveAndFinish"
    /\ out' = reviewedForSave(candidate)
    /\ current' = savePeriod(current, out')
    /\ candidate' = Null
    /\ UNCHANGED <<previous, scenario, edits, reviewScreen, uploadPage, store>>

NextSave ==
    \/ HandleFieldChange
    \/ HandleCorrection
    \/ SaveAndContinue
    \/ SaveAndFinish

SpecSave == InitSave /\ [][NextSave]_vars

(***************************************************************************)
(* Claims about the save path, checked under SpecSave.                     *)
(***************************************************************************)
SaveStep == op = "none" /\ op' \in {"saveAndContinue", "saveAndFinish"}

IntegerControlTotal(data) ==
    HasControlTotal(data) /\ IsInteger(data.ordinaryProfitFromPdf)

IntegerFields(data) ==
    \A key \in ReviewFields :
        data[key] = Null \/ data[key] = Undefined \/ IsInteger(data[key])

StoredThroughReconciliation ==
    current' = savePeriod(current, validateAndFix(candidate))

\* C15 as stated: on both save actions the record written to the store is
\* derived from validateAndFix applied to the candidate as it stands after
\* all manual edits and AI corrections, so for a candidate with an integer
\* control total the stored period has calculateMetrics(stored).ordinaryProfit
\* = ordinaryProfitFromPdf.
C15_SavedPeriodMatchesControlTotal ==
    [][SaveStep =>
          /\ StoredThroughReconciliation
          /\ IntegerControlTotal(candidate) =>
                 calculateMetrics(current').ordinaryProfit =
                     candidate.ordinaryProfitFromPdf]_vars

\* C15 amended: the equality holds for a candidate with an integer control
\* total whose numeric fields are whole numbers (null counting as 0).
C15_SavedIntegerPeriodMatchesControlTotal ==
    [][SaveStep =>
          /\ StoredThroughReconciliation
          /\ (IntegerControlTotal(candidate) /\ IntegerFields(candidate)) =>
                 calculateMetrics(current').ordinaryProfit =
                     candidate.ordinaryProfitFromPdf]_vars

\* the worked example, edited and reconciled against a control total of 25,
\* has been stored with the corrected otherExpenses
C15_Witness ==
    /\ op \in {"saveAndContinue", "saveAndFinish"}
    /\ edits > 0
    /\ out.ordinaryProfitFromPdf = Rat(25)
    /\ current.sales = Rat(100)
    /\ current.otherExpenses # Rat(8)
    /\ calculateMetrics(current).ordinaryProfit = Rat(25)

(***************************************************************************)
(* The changes from the actual figures, checked under SpecScenario.        *)
(***************************************************************************)
PercentChange(projected, actual) ==
    Mul(Div(Sub(projected, actual), MathAbs(actual)), Hundred)

\* C21: calculateScenario reports ordinaryProfitChangeFromActual = 0 whenever
\* the base ordinary profit is 0 and salesChangeFromActual = 0 whenever
\* base.sales = 0; otherwise each is the year-over-year change of the projected
\* value against the base actual, so for base.sales > 0 salesChangeFromActual
\* equals scenario.salesChangeRate.
C21_ChangesFromActual ==
    op = "calculateScenario" =>
        LET baseOrdinary == calculateMetrics(current).ordinaryProfit
        IN  /\ baseOrdinary = Zero => out.ordinaryProfitChangeFromActual = Zero
            /\ baseOrdinary # Zero =>
                   out.ordinaryProfitChangeFromActual =
                       PercentChange(out.ordinaryProfit, baseOrdinary)
            /\ current.sales = Zero => out.salesChangeFromActual = Zero
            /\ current.sales # Zero =>
                   out.salesChangeFromActual = PercentChange(out.sales, current.sales)
            /\ Lt(Zero, current.sales) =>
                   out.salesChangeFromActual = scenario.salesChangeRate

\* a base ordinary profit of 0 beside a projected one that is not 0, with
\* positive base sales and a sales change that is not 0
C21_Witness ==
    /\ op = "calculateScenario"
    /\ calculateMetrics(current).ordinaryProfit = Zero
    /\ out.ordinaryProfit # Zero
    /\ out.ordinaryProfitChangeFromActual = Zero
    /\ Lt(Zero, current.sales)
    /\ scenario.salesChangeRate # Zero
    /\ out.salesChangeFromActual = scenario.salesChangeRate

\* a negative base ordinary profit that the projection improves
C21_WitnessNegativeBase ==
    /\ op = "calculateScenario"
    /\ Lt(calculateMetrics(current).ordinaryProfit, Zero)
    /\ Lt(Zero, out.ordinaryProfitChangeFromActual)

(***************************************************************************)
(* The sign of what the save path stores, checked under SpecSave.          *)
(***************************************************************************)
NullOrNonNegative(val) == val = Null \/ val = Undefined \/ Le(Zero, val)

\* the nine amounts of the candidate and its control total
NonNegativeCandidate(data) ==
    /\ \A key \in CostFields \cup {"nonOperatingIncome"} : NullOrNonNegative(data[key])
    /\ NullOrNonNegative(data.ordinaryProfitFromPdf)

\* C22 as stated: every period record the review save path writes from a
\* candidate whose monetary fields are null or non-negative has non-negative
\* sales, materialCost, outsourcingCost, merchandisePurchase,
\* otherVariableCost, laborCost, depreciation and otherExpenses, and
\* employeeCount >= 1.
C22_StoredAmountsAreNonNegative ==
    [][(SaveStep /\ NonNegativeCandidate(candidate)) =>
          /\ \A field \in CostFields : Le(Zero, current'[field])
          /\ Le(One, current'.employeeCount)]_vars

\* C22, what the code does: every stored amount but otherExpenses is
\* non-negative and employeeCount >= 1; otherExpenses is non-negative when the
\* candidate has no control total.
C22_StoredAmountsButOtherExpensesAreNonNegative ==
    [][(SaveStep /\ NonNegativeCandidate(candidate)) =>
          /\ \A field \in CostFields \ {"otherExpenses"} : Le(Zero, current'[field])
          /\ ~HasControlTotal(candidate) => Le(Zero, current'.otherExpenses)
          /\ Le(One, current'.employeeCount)]_vars

(***************************************************************************)
(* The waterfall chart of a comparison pair                                *)
(* (src/src/components/charts/WaterfallChart.tsx, src/unnamed/part_001).   *)
(***************************************************************************)
RatMin(a, b) == IF Lt(b, a) THEN b ELSE a

\* the pair is displayed whatever the sales of its periods
pairDisplayedWithoutSales(prev, curr) == TRUE

\* periods[i].sales > 0 && periods[i + 1].sales > 0
pairDisplayed(prev, curr) == Lt(Zero, prev.sales) /\ Lt(Zero, curr.sales)

factorItems(factors) ==
    <<factors.salesContribution, factors.marginalRateContribution,
      factors.fixedCostContribution, factors.nonOperatingContribution>>

\* the value of `cumulative` after the first k items of the loop
RECURSIVE cumulativeAfter(_, _, _)
cumulativeAfter(start, items, k) ==
    IF k = 0 THEN start ELSE Add(cumulativeAfter(start, items, k - 1), items[k])

\* the running minimum and maximum after the first k items of the loop
RECURSIVE rangeAfter(_, _, _)
rangeAfter(start, items, k) ==
    IF k = 0 THEN <<RatMin(Zero, start), RatMax(Zero, start)>>
    ELSE LET before == rangeAfter(start, items, k - 1)
             cumulative == cumulativeAfter(start, items, k)
         IN  <<RatMin(before[1], cumulative), RatMax(before[2], cumulative)>>

calcWaterfallYRange(previousOrdinaryProfit, factors) ==
    rangeAfter(previousOrdinaryProfit, factorItems(factors), 4)

\* the bar of one factor, drawn from the running total before it
factorBar(cumulative, value) ==
    [invisible |->
         RatMax(Zero, IF Le(Zero, value) THEN cumulative ELSE Add(cumulative, value)),
     value |-> MathAbs(value),
     total |-> Add(cumulative, value),
     color |-> IF Le(Zero, value) THEN "BLUE" ELSE "RED"]

\* the six bars: previous ordinary profit, four factors, current ordinary profit
WaterfallChart(previousOrdinaryProfit, currentOrdinaryProfit, factors) ==
    LET items == factorItems(factors)
    IN  <<[invisible |-> Zero, value |-> previousOrdinaryProfit,
           total |-> previousOrdinaryProfit, color |-> "NAVY"]>>
        \o [k \in 1..4 |->
               factorBar(cumulativeAfter(previousOrdinaryProfit, items, k - 1), items[k])]
        \o <<[invisible |-> Zero, value |-> currentOrdinaryProfit,
              total |-> currentOrdinaryProfit, color |-> "NAVY"]>>

\* ComparisonTable of a displayed pair: the chart and its range
RenderWaterfall ==
    /\ op = "none"
    /\ pairDisplayed(previous, current)
    /\ op' = "renderWaterfall"
    /\ LET prevMetrics == calculateMetrics(previous)
           currMetrics == calculateMetrics(current)
           factors == calculateWaterfallFactors(current, previous)
       IN  out' = [bars |-> WaterfallChart(prevMetrics.ordinaryProfit,
                                           currMetrics.ordinaryProfit, factors),
                   yRange |-> calcWaterfallYRange(prevMetrics.ordinaryProfit, factors)]
    /\ UNCHANGED <<previous, current, scenario, candidate, edits, reviewScreen, uploadPage, store>>

NextChart ==
    \/ UpdatePrevious
    \/ UpdateCurrent
    \/ RenderWaterfall

SpecChart == Init /\ [][NextChart]_vars

(***************************************************************************)
(* Claims about the waterfall chart, checked under SpecChart.              *)
(***************************************************************************)
\* C23: for every comparison pair the balance-chart page displays (both
\* periods have sales > 0) the waterfall is closed: the previous ordinary
\* profit plus the four factors, which is the running total after the fourth
\* factor bar and the last cumulative value of calcWaterfallYRange, equals the
\* current ordinary profit shown in the last bar.
C23_WaterfallIsClosed ==
    op = "renderWaterfall" =>
        LET currOrdinary == calculateMetrics(current).ordinaryProfit
            prevOrdinary == calculateMetrics(previous).ordinaryProfit
            items == factorItems(calculateWaterfallFactors(current, previous))
        IN  /\ Len(out.bars) = 6
            /\ out.bars[1].total = prevOrdinary
            /\ out.bars[5].total = currOrdinary
            /\ out.bars[6].total = currOrdinary
            /\ cumulativeAfter(prevOrdinary, items, 4) = currOrdinary
            /\ Le(out.yRange[1], currOrdinary)
            /\ Le(currOrdinary, out.yRange[2])

\* a displayed pair whose factors are all at work: sales, rate, fixed cost and
\* non-operating income differ between the periods
C23_Witness ==
    /\ op = "renderWaterfall"
    /\ previous.sales # current.sales
    /\ out.bars[2].value # Zero
    /\ out.bars[3].value # Zero
    /\ out.bars[5].total # out.bars[1].total
    /\ out.bars[5].total = out.bars[6].total

\* a displayed pair with a falling bar
C23_WitnessFallingBar ==
    /\ op = "renderWaterfall"
    /\ \E k \in 2..5 : out.bars[k].color = "RED"

(***************************************************************************)
(* Reviewing a stored period again (src/unnamed/part_000).  current is the *)
(* stored period at reviewingPeriodIndex, which is also the target index   *)
(* of the review screen; candidate is Null while no review is open.        *)
(***************************************************************************)
\* the candidate built with a control total of 0 instead of null
asExtractedWithZeroControlTotal(period) ==
    [label |-> period.label,
     sales |-> period.sales,
     materialCost |-> period.materialCost,
     outsourcingCost |-> period.outsourcingCost,
     merchandisePurchase |-> period.merchandisePurchase,
     otherVariableCost |-> period.otherVariableCost,
     laborCost |-> period.laborCost,
     depreciation |-> period.depreciation,
     otherExpenses |-> period.otherExpenses,
     nonOperatingIncome |-> period.nonOperatingIncome,
     employeeCount |-> period.employeeCount,
     ordinaryProfitFromPdf |-> Zero,
     confidence |-> << >>,
     breakdown |-> << >>,
     notes |-> << >>]

\* PeriodData -> ExtractedPeriodData
asExtracted(period) ==
    [label |-> period.label,
     sales |-> period.sales,
     materialCost |-> period.materialCost,
     outsourcingCost |-> period.outsourcingCost,
     merchandisePurchase |-> period.merchandisePurchase,
     otherVariableCost |-> period.otherVariableCost,
     laborCost |-> period.laborCost,
     depreciation |-> period.depreciation,
     otherExpenses |-> period.otherExpenses,
     nonOperatingIncome |-> period.nonOperatingIncome,
     employeeCount |-> period.employeeCount,
     ordinaryProfitFromPdf |-> Null,
     confidence |-> << >>,
     breakdown |-> << >>,
     notes |-> << >>]

\* stored periods: the seeds and a period whose label has been cleared
StoredSeeds == PeriodSeeds \cup {[ExamplePeriod EXCEPT !.label = ""]}

InitViewSaved ==
    /\ previous = createEmptyPeriod("P1")
    /\ current \in StoredSeeds
    /\ scenario = createDefaultScenario
    /\ candidate = Null
    /\ edits = 0
    /\ op = "none"
    /\ out = Null
    /\ NoScreens

\* the input page edits the stored period while no review is open
EditStoredPeriod ==
    /\ candidate = Null
    /\ UpdateCurrent

\* if (!period || period.sales === 0) return; otherwise the review opens
HandleViewSavedPeriod ==
    /\ op = "none"
    /\ candidate = Null
    /\ current.sales # Zero
    /\ candidate' = asExtracted(current)
    /\ UNCHANGED <<previous, current, scenario, edits, op, out, reviewScreen, uploadPage, store>>

EditReviewedPeriod ==
    /\ candidate # Null
    /\ HandleFieldChange

SaveReviewedPeriod ==
    /\ candidate # Null
    /\ SaveAndContinue \/ SaveAndFinish

NextViewSaved ==
    \/ EditStoredPeriod
    \/ HandleViewSavedPeriod
    \/ EditReviewedPeriod
    \/ SaveReviewedPeriod

SpecViewSaved == InitViewSaved /\ [][NextViewSaved]_vars

(***************************************************************************)
(* Claims about the second review, checked under SpecViewSaved.            *)
(***************************************************************************)
SaveWithoutEdit == SaveStep /\ candidate = asExtracted(current)

\* C24 as stated: opening a stored period for review and saving it again
\* without any edit leaves the stored period unchanged: the same label, nine
\* amounts and employeeCount are written back.
C24_SaveWithoutEditChangesNothing ==
    [][SaveWithoutEdit =>
          /\ candidate.ordinaryProfitFromPdf = Null
          /\ out' = candidate
          /\ current' = current]_vars

\* C24 amended: it does for a stored period with employeeCount >= 1 and a
\* label that is not empty.
C24_SaveWithoutEditChangesNothingForValidPeriod ==
    [][(/\ SaveWithoutEdit
        /\ Le(One, current.employeeCount)
        /\ current.label # "") =>
          /\ candidate.ordinaryProfitFromPdf = Null
          /\ out' = candidate
          /\ current' = current]_vars

\* a stored period that was edited on the input page, has sales and a valid
\* employeeCount, and was saved from the review as it was opened
C24_Witness ==
    /\ op \in {"saveAndContinue", "saveAndFinish"}
    /\ edits > 0
    /\ out = asExtracted(current)
    /\ current.sales # Zero
    /\ Le(One, current.employeeCount)
    /\ current.label # ""
    /\ validateOrdinaryProfit(current).isValid

(***************************************************************************)
(* The AI correction of the review screen                                  *)
(* (src/src/components/layout/Header.tsx, handleCorrection).  A request in *)
(* flight carries the selectedExtractedIndex its handler closed over.      *)
(***************************************************************************)
\* the guard without its isCorrecting test
mayCorrectWhileCorrecting(correctionText, isCorrecting) == correctionText # ""

\* !(!correctionText.trim() || isCorrecting)
mayCorrect(correctionText, isCorrecting) == correctionText # "" /\ ~isCorrecting

\* allExtracted: an extraction that found two periods
AllExtracted == <<ExampleExtracted(Rat(25)), EmptyExtracted(Null)>>

\* result.periods[0] of a correction response
CorrectedPeriods == SaveSeeds

InitCorrection ==
    /\ previous = Null
    /\ current = Null
    /\ scenario = Null
    /\ candidate = Null
    /\ edits = 0
    /\ op = "none"
    /\ out = Null
    /\ reviewScreen =
           [editedPeriods |-> AllExtracted,
            selectedExtractedIndex |-> 1,
            correctionText |-> "",
            isCorrecting |-> FALSE,
            correctionError |-> "",
            inFlight |-> << >>]
    /\ uploadPage = Null
    /\ store = Null

\* the textarea, disabled while isCorrecting
SetCorrectionText ==
    /\ ~reviewScreen.isCorrecting
    /\ \E text \in {"", "instruction"} :
           reviewScreen' = [reviewScreen EXCEPT !.correctionText = text]
    /\ UNCHANGED <<engineVars, uploadPage, store>>

\* the period buttons, which stay enabled while a correction is in flight
SetSelectedExtractedIndex ==
    /\ \E i \in 1..Len(reviewScreen.editedPeriods) :
           reviewScreen' = [reviewScreen EXCEPT !.selectedExtractedIndex = i]
    /\ UNCHANGED <<engineVars, uploadPage, store>>

\* handleCorrection up to its await: it returns without an effect when the
\* guard fails or no API key is active, and sends the request otherwise
HandleCorrectionRequest ==
    /\ Len(reviewScreen.inFlight) < MaxRequests
    /\ \E active \in BOOLEAN :
           IF mayCorrect(reviewScreen.correctionText, reviewScreen.isCorrecting) /\ active
           THEN reviewScreen' =
                    [reviewScreen EXCEPT
                        !.isCorrecting = TRUE,
                        !.correctionError = "",
                        !.inFlight = Append(@, [index |-> reviewScreen.selectedExtractedIndex])]
           ELSE UNCHANGED reviewScreen
    /\ UNCHANGED <<engineVars, uploadPage, store>>

\* the response carries a period: it replaces the candidate at the index the
\* request was sent for, the text is cleared, and isCorrecting is cleared
CorrectionSucceeds ==
    /\ reviewScreen.inFlight # << >>
    /\ \E k \in 1..Len(reviewScreen.inFlight) : \E result \in CorrectedPeriods :
           reviewScreen' =
               [reviewScreen EXCEPT
                   !.editedPeriods[reviewScreen.inFlight[k].index] = result,
                   !.correctionText = "",
                   !.isCorrecting = FALSE,
                   !.inFlight = SubSeq(@, 1, k - 1) \o SubSeq(@, k + 1, Len(@))]
    /\ UNCHANGED <<engineVars, uploadPage, store>>

\* the response carries no period: only isCorrecting is cleared
CorrectionReturnsNothing ==
    /\ reviewScreen.inFlight # << >>
    /\ \E k \in 1..Len(reviewScreen.inFlight) :
           reviewScreen' =
               [reviewScreen EXCEPT
                   !.isCorrecting = FALSE,
                   !.inFlight = SubSeq(@, 1, k - 1) \o SubSeq(@, k + 1, Len(@))]
    /\ UNCHANGED <<engineVars, uploadPage, store>>

\* the request fails: the error is shown and isCorrecting is cleared
CorrectionFails ==
    /\ reviewScreen.inFlight # << >>
    /\ \E k \in 1..Len(reviewScreen.inFlight) :
           reviewScreen' =
               [reviewScreen EXCEPT
                   !.correctionError = "error",
                   !.isCorrecting = FALSE,
                   !.inFlight = SubSeq(@, 1, k - 1) \o SubSeq(@, k + 1, Len(@))]
    /\ UNCHANGED <<engineVars, uploadPage, store>>

NextCorrection ==
    \/ SetCorrectionText
    \/ SetSelectedExtractedIndex
    \/ HandleCorrectionRequest
    \/ CorrectionSucceeds
    \/ CorrectionReturnsNothing
    \/ CorrectionFails

SpecCorrection == InitCorrection /\ [][NextCorrection]_vars

(***************************************************************************)
(* Claims about the AI correction, checked under SpecCorrection.           *)
(***************************************************************************)
ResponseStep == Len(reviewScreen'.inFlight) < Len(reviewScreen.inFlight)

\* C25: at most one AI correction request is in flight at any time:
\* isCorrecting is set exactly while one is, so handleCorrection does nothing
\* then; isCorrecting is cleared on success and on failure; and a response
\* replaces only the candidate at the index selected when its request was sent.
C25_OneCorrectionInFlight ==
    /\ [](/\ Len(reviewScreen.inFlight) <= 1
          /\ reviewScreen.isCorrecting <=> Len(reviewScreen.inFlight) = 1)
    /\ [][ResponseStep =>
             /\ ~reviewScreen'.isCorrecting
             /\ \A i \in 1..Len(reviewScreen.editedPeriods) :
                    i # reviewScreen.inFlight[1].index =>
                        reviewScreen'.editedPeriods[i] = reviewScreen.editedPeriods[i]]_vars

\* a response has replaced the first candidate while the second was selected
C25_Witness ==
    /\ reviewScreen.editedPeriods[1] # AllExtracted[1]
    /\ reviewScreen.editedPeriods[2] = AllExtracted[2]
    /\ reviewScreen.selectedExtractedIndex = 2
    /\ reviewScreen.correctionText = ""
    /\ ~reviewScreen.isCorrecting
    /\ reviewScreen.inFlight = << >>

\* a request is in flight for a candidate that is no longer the selected one
C25_WitnessInFlight ==
    /\ reviewScreen.isCorrecting
    /\ Len(reviewScreen.inFlight) = 1
    /\ reviewScreen.inFlight[1].index # reviewScreen.selectedExtractedIndex

(***************************************************************************)
(* The upload page's phase (src/unnamed/part_000, UploadPage).  An async   *)
(* handler is one action per stretch between awaits; pc is the await the   *)
(* handler is suspended at, and run lists the phases the current run of    *)
(* handleFileSelected has set.                                             *)
(***************************************************************************)
\* the branch taken on the parsed response, without the length test
phaseOfResultWithPeriodsField(result) ==
    IF "periods" \in DOMAIN result THEN "review" ELSE "error"

\* result.periods && result.periods.length > 0 ? review : throw
phaseOfResult(result) ==
    IF "periods" \in DOMAIN result /\ Len(result.periods) > 0 THEN "review" ELSE "error"

\* mode of the request for a provider and an extraction result
modeOf(isPdfCapable, hasText) ==
    IF isPdfCapable THEN "pdf" ELSE IF hasText THEN "text" ELSE "image"

\* setParseMode(mode === "pdf" ? (hasText ? "text" : "image") : mode)
parseModeOf(isPdfCapable, hasText) ==
    IF modeOf(isPdfCapable, hasText) = "pdf"
    THEN (IF hasText THEN "text" ELSE "image")
    ELSE modeOf(isPdfCapable, hasText)

\* the result of a parse response: without periods, or with none, one or two
ParsedResults ==
    {[error |-> "no table"],
     [periods |-> << >>],
     [periods |-> <<ExampleExtracted(Rat(25))>>],
     [periods |-> <<ExampleExtracted(Rat(25)), EmptyExtracted(Null)>>]}

\* what getActiveApiKey returns: null, or a provider's key
ActiveApiKeys == {Null, [provider |-> "claude"], [provider |-> "openai"]}

InitUpload ==
    /\ previous = Null
    /\ current = Null
    /\ scenario = Null
    /\ candidate = Null
    /\ edits = 0
    /\ op = "none"
    /\ out = Null
    /\ reviewScreen = Null
    /\ uploadPage =
           [phase |-> "upload",
            error |-> "",
            extractedPeriods |-> << >>,
            apiKeyDialogOpen |-> FALSE,
            parseMode |-> "text",
            pc |-> "idle",
            isPdfCapable |-> FALSE,
            run |-> << >>]
    /\ store = Null

\* the catch block of both handlers
failed(page, message) ==
    [page EXCEPT !.error = message, !.phase = "error", !.pc = "idle",
                 !.run = IF page.pc = "excel" THEN @ ELSE Append(@, "error")]

\* handleFileSelected up to await extractFromPDF; the uploader is shown in
\* the upload phase only
HandleFileSelected ==
    /\ uploadPage.phase = "upload"
    /\ uploadPage.pc = "idle"
    /\ \E active \in ActiveApiKeys :
           uploadPage' =
               IF active = Null
               THEN [uploadPage EXCEPT !.apiKeyDialogOpen = TRUE]
               ELSE [uploadPage EXCEPT
                        !.phase = "extracting",
                        !.error = "",
                        !.pc = "extractFromPDF",
                        !.isPdfCapable = (active.provider \in {"claude", "gemini"}),
                        !.run = <<"extracting">>]
    /\ UNCHANGED <<engineVars, reviewScreen, store>>

\* extractFromPDF settles: it rejects, or resolves and the handler runs on
\* to await fetch unless image mode has no page image
ExtractFromPDFSettles ==
    /\ uploadPage.pc = "extractFromPDF"
    /\ \/ uploadPage' = failed(uploadPage, "extraction failed")
       \/ \E hasText \in BOOLEAN, images \in 0..1 :
             uploadPage' =
                 IF modeOf(uploadPage.isPdfCapable, hasText) = "image" /\ images = 0
                 THEN failed([uploadPage EXCEPT
                                 !.parseMode = parseModeOf(uploadPage.isPdfCapable, hasText)],
                             "no page image")
                 ELSE [uploadPage EXCEPT
                          !.parseMode = parseModeOf(uploadPage.isPdfCapable, hasText),
                          !.phase = "parsing",
                          !.pc = "fetch",
                          !.run = Append(@, "parsing")]
    /\ UNCHANGED <<engineVars, reviewScreen, store>>

\* fetch("/api/parse-pdf") settles: it rejects, answers with an HTTP error,
\* or answers with a result
ParsePdfSettles ==
    /\ uploadPage.pc = "fetch"
    /\ \/ uploadPage' = failed(uploadPage, "fetch failed")
       \/ \E errData \in {[error |-> "rate limited"], [error |-> ""]} :
             uploadPage' = failed(uploadPage,
                                  IF errData.error # "" THEN errData.error
                                  ELSE "API call failed")
       \/ \E result \in ParsedResults :
             uploadPage' =
                 IF phaseOfResult(result) = "review"
                 THEN [uploadPage EXCEPT
                          !.extractedPeriods = result.periods,
                          !.phase = "review",
                          !.pc = "idle",
                          !.run = Append(@, "review")]
                 ELSE failed(uploadPage, "no period extracted")
    /\ UNCHANGED <<engineVars, reviewScreen, store>>

\* handleExcelConvert up to its first await
HandleExcelConvert ==
    /\ uploadPage.phase = "upload"
    /\ uploadPage.pc = "idle"
    /\ \E active \in ActiveApiKeys :
           uploadPage' =
               IF active = Null
               THEN [uploadPage EXCEPT !.apiKeyDialogOpen = TRUE]
               ELSE [uploadPage EXCEPT
                        !.phase = "excel-converting",
                        !.error = "",
                        !.pc = "excel",
                        !.isPdfCapable = (active.provider \in {"claude", "gemini"})]
    /\ UNCHANGED <<engineVars, reviewScreen, store>>

\* the awaits of handleExcelConvert settle: the file is written, or one fails
ExcelConvertSettles ==
    /\ uploadPage.pc = "excel"
    /\ \/ uploadPage' = [uploadPage EXCEPT !.phase = "upload", !.pc = "idle"]
       \/ uploadPage' = failed(uploadPage, "conversion failed")
    /\ UNCHANGED <<engineVars, reviewScreen, store>>

\* handleReset, offered by the error panel and as the review's way back
HandleReset ==
    /\ uploadPage.phase \in {"error", "review"}
    /\ uploadPage' = [uploadPage EXCEPT
                         !.phase = "upload",
                         !.error = "",
                         !.extractedPeriods = << >>,
                         !.parseMode = "text"]
    /\ UNCHANGED <<engineVars, reviewScreen, store>>

\* the API key button and the dialog's close
SetApiKeyDialogOpen ==
    /\ \E open \in BOOLEAN :
           uploadPage' = [uploadPage EXCEPT !.apiKeyDialogOpen = open]
    /\ UNCHANGED <<engineVars, reviewScreen, store>>

NextUpload ==
    \/ HandleFileSelected
    \/ ExtractFromPDFSettles
    \/ ParsePdfSettles
    \/ HandleExcelConvert
    \/ ExcelConvertSettles
    \/ HandleReset
    \/ SetApiKeyDialogOpen

\* the awaited calls settle
SpecUpload ==
    /\ InitUpload
    /\ [][NextUpload]_vars
    /\ WF_vars(ExtractFromPDFSettles)
    /\ WF_vars(ParsePdfSettles)

(***************************************************************************)
(* Claims about the upload phase, checked under SpecUpload.                *)
(***************************************************************************)
RunEnded == uploadPage.pc = "idle" /\ uploadPage.run # << >>

Busy == uploadPage.phase \in {"extracting", "parsing"}

\* what holds of the phase in every state, whichever way a run ends
PhaseIsConsistent ==
    /\ Busy <=> uploadPage.pc \in {"extractFromPDF", "fetch"}
    /\ uploadPage.phase = "review" => Len(uploadPage.extractedPeriods) > 0
    /\ uploadPage.phase = "error" => uploadPage.error # ""
    /\ RunEnded /\ uploadPage.run[Len(uploadPage.run)] = "error" =>
           uploadPage.extractedPeriods = << >>

\* what holds of every step
PhaseSteps ==
    /\ uploadPage.phase \in {"error", "review"} /\ uploadPage'.phase # uploadPage.phase =>
           /\ uploadPage'.phase = "upload"
           /\ uploadPage'.error = ""
           /\ uploadPage'.extractedPeriods = << >>
    /\ ~uploadPage.apiKeyDialogOpen /\ uploadPage'.apiKeyDialogOpen =>
           uploadPage'.phase = uploadPage.phase
    /\ uploadPage.phase = "upload" /\ uploadPage'.phase # "upload" =>
           uploadPage'.phase \in {"extracting", "excel-converting"}
    /\ uploadPage.phase = "extracting" /\ uploadPage'.phase # "extracting" =>
           uploadPage'.phase \in {"parsing", "error"}
    /\ uploadPage.phase = "parsing" /\ uploadPage'.phase # "parsing" =>
           uploadPage'.phase \in {"review", "error"}

\* C26 as stated: every run of handleFileSelected that finds an active API key
\* and has ended went upload -> extracting -> parsing and then to exactly one
\* of review and error.
C26_RunPassesThroughParsing ==
    RunEnded =>
        uploadPage.run \in {<<"extracting", "parsing", "review">>,
                            <<"extracting", "parsing", "error">>}

\* C26, amended: a run goes upload -> extracting and from there to error (the
\* extraction failed or gave no page image) or to parsing, and from parsing to
\* exactly one of review (the response carries a period) and error (with the
\* message set); the phase is extracting or parsing only while a call is
\* awaited and leaves them once the calls settle; handleReset returns to
\* upload from error and review; without an API key the phase is unchanged.
C26_RunEndsInReviewOrError ==
    /\ [](/\ PhaseIsConsistent
          /\ RunEnded =>
                 uploadPage.run \in {<<"extracting", "parsing", "review">>,
                                     <<"extracting", "parsing", "error">>,
                                     <<"extracting", "error">>})
    /\ [][PhaseSteps]_vars
    /\ (Busy ~> uploadPage.phase \in {"review", "error"})

\* a run has ended in review
C26_Witness ==
    /\ uploadPage.run = <<"extracting", "parsing", "review">>
    /\ uploadPage.phase = "review"
    /\ Len(uploadPage.extractedPeriods) = 2

\* a run has ended in error after an empty result
C26_WitnessEmptyResult ==
    /\ uploadPage.run = <<"extracting", "parsing", "error">>
    /\ uploadPage.phase = "error"
    /\ uploadPage.error = "no period extracted"

\* a run has ended in error without parsing
C26_WitnessExtractionFailed ==
    /\ uploadPage.run = <<"extracting", "error">>
    /\ uploadPage.phase = "error"

(***************************************************************************)
(* The store (src/src/lib/store.ts, useAppStore).  Indices are zero-based  *)
(* as in the source; the i-th element of an array is element i + 1 of the  *)
(* sequence.  Identifiers (uuid) and timestamps are left out.              *)
(***************************************************************************)
\* array.filter((_, i) => i !== index)
filterOutIndex(array, index) ==
    IF index \in 0..(Len(array) - 1)
    THEN SubSeq(array, 1, index) \o SubSeq(array, index + 2, Len(array))
    ELSE array

\* the labels the pages give a new period
PeriodLabels == <<"P1", "P2", "P3", "P4", "P5", "P6">>

\* the state useAppStore is created with, and the state resetData sets
initialStore ==
    [company |-> [name |-> ""],
     periods |-> <<createEmptyPeriod("P1"), createEmptyPeriod("P2"),
                   createEmptyPeriod("P3")>>,
     scenarios |-> <<createDefaultScenario>>,
     currentStep |-> 1,
     selectedPeriodIndex |-> 0]

\* a variant of the guard that is off by one
mayAddPeriodUpToSix(state) == Len(state.periods) <= 5

mayAddPeriod(state) == ~(Len(state.periods) >= 5)
mayRemovePeriod(state) == ~(Len(state.periods) <= 2)
mayAddScenario(state) == ~(Len(state.scenarios) >= 5)
mayRemoveScenario(state) == ~(Len(state.scenarios) <= 1)

addPeriod(state, label) ==
    IF ~mayAddPeriod(state) THEN state
    ELSE [state EXCEPT !.periods = Append(@, createEmptyPeriod(label))]

\* a variant that keeps the selected index as it was
newSelectedIndexUnclamped(selected, newPeriods) == selected

\* Math.min(state.selectedPeriodIndex, newPeriods.length - 1)
newSelectedIndex(selected, newPeriods) ==
    IF selected <= Len(newPeriods) - 1 THEN selected ELSE Len(newPeriods) - 1

removePeriod(state, index) ==
    IF ~mayRemovePeriod(state) THEN state
    ELSE LET newPeriods == filterOutIndex(state.periods, index)
         IN  [state EXCEPT
                 !.periods = newPeriods,
                 !.selectedPeriodIndex = newSelectedIndex(@, newPeriods)]

\* updatePeriod(index, { [field]: value }) at an index the array has
updatePeriodAt(state, index, field, value) ==
    [state EXCEPT !.periods[index + 1] = updatePeriod(@, field, value)]

setSelectedPeriodIndex(state, index) ==
    [state EXCEPT !.selectedPeriodIndex = index]

addScenario(state) ==
    IF ~mayAddScenario(state) THEN state
    ELSE LET employeeCount ==
                 IF state.periods = << >> THEN One
                 ELSE OrOne(state.periods[Len(state.periods)].employeeCount)
         IN  [state EXCEPT
                 !.scenarios =
                     Append(@, [createDefaultScenario EXCEPT
                                   !.employeeCount = employeeCount])]

removeScenario(state, index) ==
    IF ~mayRemoveScenario(state) THEN state
    ELSE [state EXCEPT !.scenarios = filterOutIndex(@, index)]

\* updateScenario(index, { [field]: value }) at an index the array has
updateScenarioAt(state, index, field, value) ==
    [state EXCEPT !.scenarios[index + 1] = updateScenario(@, field, value)]

resetData(state) == initialStore

\* what the input page and the simulation page write in these runs
StorePeriodData == {<<"sales", Rat(MaxAmount)>>}
StoreScenarioData == {<<"salesChangeRate", Rat(MaxAmount)>>}

InitStore ==
    /\ previous = Null
    /\ current = Null
    /\ scenario = Null
    /\ candidate = Null
    /\ edits = 0
    /\ op = "none"
    /\ out = Null
    /\ reviewScreen = Null
    /\ uploadPage = Null
    /\ store = initialStore

\* a store operation returns nothing and leaves the rest alone
StoreUnchanged ==
    /\ out' = Null
    /\ UNCHANGED <<previous, current, scenario, candidate, reviewScreen, uploadPage>>

AddPeriod ==
    /\ op' = "addPeriod"
    /\ store' = addPeriod(store, PeriodLabels[Len(store.periods) + 1])
    /\ UNCHANGED edits
    /\ StoreUnchanged

RemovePeriod ==
    /\ op' = "removePeriod"
    /\ \E index \in 0..Len(store.periods) : store' = removePeriod(store, index)
    /\ UNCHANGED edits
    /\ StoreUnchanged

UpdatePeriodAt ==
    /\ edits < MaxUpdates
    /\ op' = "updatePeriod"
    /\ \E index \in 0..(Len(store.periods) - 1) : \E data \in StorePeriodData :
           store' = updatePeriodAt(store, index, data[1], data[2])
    /\ edits' = edits + 1
    /\ StoreUnchanged

SetSelectedPeriodIndex ==
    /\ op' = "setSelectedPeriodIndex"
    /\ \E index \in 0..(Len(store.periods) - 1) :
           store' = setSelectedPeriodIndex(store, index)
    /\ UNCHANGED edits
    /\ StoreUnchanged

AddScenario ==
    /\ op' = "addScenario"
    /\ store' = addScenario(store)
    /\ UNCHANGED edits
    /\ StoreUnchanged

RemoveScenario ==
    /\ op' = "removeScenario"
    /\ \E index \in 0..(Len(store.scenarios) - 1) : store' = removeScenario(store, index)
    /\ UNCHANGED edits
    /\ StoreUnchanged

UpdateScenarioAt ==
    /\ edits < MaxUpdates
    /\ op' = "updateScenario"
    /\ \E index \in 0..(Len(store.scenarios) - 1) : \E data \in StoreScenarioData :
           store' = updateScenarioAt(store, index, data[1], data[2])
    /\ edits' = edits + 1
    /\ StoreUnchanged

ResetData ==
    /\ op' = "resetData"
    /\ store' = resetData(store)
    /\ UNCHANGED edits
    /\ StoreUnchanged

\* the operations that change the periods and the scenarios
NextStore ==
    \/ AddPeriod
    \/ RemovePeriod
    \/ UpdatePeriodAt
    \/ AddScenario
    \/ RemoveScenario
    \/ UpdateScenarioAt
    \/ ResetData

SpecStore == InitStore /\ [][NextStore]_vars

\* the operations that change the periods' number and the selected index
NextSelection ==
    \/ AddPeriod
    \/ RemovePeriod
    \/ SetSelectedPeriodIndex
    \/ ResetData

SpecSelection == InitStore /\ [][NextSelection]_vars

(***************************************************************************)
(* Claims about the store's operations: C27 is checked under SpecStore,    *)
(* C28 under SpecSelection.                                                *)
(***************************************************************************)
CountsWithinLimits ==
    /\ Len(store.periods) \in 2..5
    /\ Len(store.scenarios) \in 1..5

RefusedAtLimit ==
    /\ op' = "addPeriod" /\ Len(store.periods) = 5 => store' = store
    /\ op' = "removePeriod" /\ Len(store.periods) = 2 => store' = store
    /\ op' = "addScenario" /\ Len(store.scenarios) = 5 => store' = store
    /\ op' = "removeScenario" /\ Len(store.scenarios) = 1 => store' = store

\* C27: from the initial store state, after any sequence of addPeriod,
\* removePeriod, updatePeriod at a valid index, addScenario, removeScenario,
\* updateScenario at a valid index and resetData the store holds 2 to 5
\* periods and 1 to 5 scenarios, and adding at the upper limit or removing at
\* the lower limit leaves the state unchanged.
C27_CountsStayWithinLimits ==
    /\ []CountsWithinLimits
    /\ [][RefusedAtLimit]_vars

\* addPeriod has just been refused at five periods, with five scenarios
C27_Witness ==
    /\ op = "addPeriod"
    /\ Len(store.periods) = 5
    /\ Len(store.scenarios) = 5

\* removeScenario has just been refused at one scenario, with two periods
C27_WitnessLowerLimits ==
    /\ op = "removeScenario"
    /\ Len(store.periods) = 2
    /\ Len(store.scenarios) = 1

\* C28: selectedPeriodIndex is always a valid index into periods after any
\* sequence of addPeriod, removePeriod at any index, setSelectedPeriodIndex
\* with a then-valid index and resetData from the initial store state.
C28_SelectedPeriodIndexIsValid ==
    /\ 0 <= store.selectedPeriodIndex
    /\ store.selectedPeriodIndex < Len(store.periods)

\* the last of five periods was selected and a period has been removed
C28_Witness ==
    /\ op = "removePeriod"
    /\ Len(store.periods) = 4
    /\ store.selectedPeriodIndex = 3
    /\ store.periods[4].label = "P5"

\* the selected last period itself was removed and the selection moved down
C28_WitnessRemovedSelected ==
    /\ op = "removePeriod"
    /\ Len(store.periods) = 2
    /\ store.selectedPeriodIndex = 1
    /\ store.periods[2].label = "P2"

(***************************************************************************)
(* Export and import of the store as JSON (store.ts, exportToJSON and      *)
(* importFromJSON).  A text is either not JSON or carries a JSON value; a  *)
(* JSON value is tagged with its type, so that null, an absent member and  *)
(* an empty array stay apart.                                              *)
(***************************************************************************)
JsonNull == [type |-> "null"]
JsonUndefined == [type |-> "undefined"]
JsonObject(value) == [type |-> "object", value |-> value]
JsonArray(value) == [type |-> "array", value |-> value]

NotJson == [valid |-> FALSE]
JsonText(json) == [valid |-> TRUE, json |-> json]

\* JSON.stringify of a number: a number that is not finite is written as null
jsonNumber(x) == IF IsFinite(x) THEN x ELSE Null

\* JSON.stringify followed by JSON.parse of a period or scenario record
jsonRecord(record) ==
    [key \in DOMAIN record |->
        IF key = "label" THEN record[key] ELSE jsonNumber(record[key])]

jsonRecords(array) == [i \in 1..Len(array) |-> jsonRecord(array[i])]

exportToJSON(state) ==
    JsonText([type |-> "object",
              members |->
                  [company |-> JsonObject(state.company),
                   periods |-> JsonArray(jsonRecords(state.periods)),
                   scenarios |-> JsonArray(jsonRecords(state.scenarios))]])

\* data.key of a parsed object
member(data, key) ==
    IF key \in DOMAIN data.members THEN data.members[key] ELSE JsonUndefined

\* !value for the values a member takes here
isFalsy(value) == value.type \in {"null", "undefined"}

\* a variant that installs the default scenario whatever the document holds
scenariosAlwaysDefault(value) == <<createDefaultScenario>>

\* data.scenarios || [createDefaultScenario("", 0)]
scenariosOrDefault(value) ==
    IF isFalsy(value) THEN <<createDefaultScenario>> ELSE value.value

\* the new state and the returned flag
importFromJSON(state, text) ==
    IF ~text.valid THEN [state |-> state, result |-> FALSE]
    ELSE IF text.json.type # "object" THEN [state |-> state, result |-> FALSE]
    ELSE IF isFalsy(member(text.json, "company")) \/ isFalsy(member(text.json, "periods"))
    THEN [state |-> state, result |-> FALSE]
    ELSE [state |->
              [state EXCEPT
                  !.company = member(text.json, "company").value,
                  !.periods = member(text.json, "periods").value,
                  !.scenarios = scenariosOrDefault(member(text.json, "scenarios"))],
          result |-> TRUE]

setCompanyName(state, name) == [state EXCEPT !.company.name = name]

\* what the documents hold under each name; undefined stands for no member
CompanyA == JsonObject([name |-> "A"])
TwoPeriods == JsonArray(<<ExamplePeriod, createEmptyPeriod("P2")>>)
OneScenario == JsonArray(<<ExampleScenario>>)

\* the object with the members that are not undefined
JsonDocument(company, periods, scenarios) ==
    LET present ==
            {key \in {"company", "periods", "scenarios"} :
                \/ key = "company" /\ company.type # "undefined"
                \/ key = "periods" /\ periods.type # "undefined"
                \/ key = "scenarios" /\ scenarios.type # "undefined"}
    IN  [type |-> "object",
         members |->
             [key \in present |->
                 IF key = "company" THEN company
                 ELSE IF key = "periods" THEN periods
                 ELSE scenarios]]

\* texts read from a file: no JSON, null, documents that lack a member or hold
\* null for it, and documents with and without periods and scenarios
Documents ==
    {NotJson,
     JsonText(JsonNull),
     JsonText(JsonDocument(JsonUndefined, TwoPeriods, OneScenario)),
     JsonText(JsonDocument(CompanyA, JsonUndefined, OneScenario)),
     JsonText(JsonDocument(JsonNull, TwoPeriods, OneScenario)),
     JsonText(JsonDocument(CompanyA, JsonNull, JsonUndefined)),
     JsonText(JsonDocument(CompanyA, TwoPeriods, JsonUndefined)),
     JsonText(JsonDocument(CompanyA, TwoPeriods, JsonNull)),
     JsonText(JsonDocument(CompanyA, JsonArray(<< >>), JsonArray(<< >>))),
     JsonText(JsonDocument(CompanyA, TwoPeriods, OneScenario))}

ImportUnchanged == UNCHANGED <<previous, current, scenario, candidate, edits, reviewScreen, uploadPage>>

SetCompanyName ==
    /\ op' = "setCompanyName"
    /\ \E name \in {"", "B"} : store' = setCompanyName(store, name)
    /\ UNCHANGED edits
    /\ StoreUnchanged

ExportToJSON ==
    /\ op' = "exportToJSON"
    /\ out' = [text |-> exportToJSON(store), result |-> TRUE]
    /\ UNCHANGED store
    /\ ImportUnchanged

\* the text read from a file: any document, or the text exported last
ImportFromJSON ==
    /\ op' = "importFromJSON"
    /\ \E text \in Documents \cup {exportToJSON(store)} :
           LET imported == importFromJSON(store, text)
           IN  /\ store' = imported.state
               /\ out' = [text |-> text, result |-> imported.result]
    /\ ImportUnchanged

NextImport ==
    \/ SetCompanyName
    \/ AddPeriod
    \/ UpdatePeriodAt
    \/ AddScenario
    \/ ExportToJSON
    \/ ImportFromJSON

SpecImport == InitStore /\ [][NextImport]_vars

(***************************************************************************)
(* Claims about export and import, checked under SpecImport.               *)
(***************************************************************************)
\* the text is not valid JSON or its document has no member of that name
Lacks(text, key) ==
    \/ ~text.valid
    \/ text.json.type # "object"
    \/ key \notin DOMAIN text.json.members

\* the value of a member of the document, null standing for itself
ValueInDocument(text, key) ==
    LET value == member(text.json, key)
    IN  IF value.type \in {"object", "array"} THEN value.value ELSE Null

RefusedOrInstalled(scenariosDefaulted(_)) ==
    op' = "importFromJSON" =>
        LET text == out'.text
        IN  /\ Lacks(text, "company") \/ Lacks(text, "periods") => ~out'.result
            /\ ~out'.result => store' = store
            /\ out'.result =>
                   /\ store'.company = ValueInDocument(text, "company")
                   /\ store'.periods = ValueInDocument(text, "periods")
                   /\ store'.scenarios =
                          IF scenariosDefaulted(text) THEN <<createDefaultScenario>>
                          ELSE ValueInDocument(text, "scenarios")
            /\ text = exportToJSON(store) => out'.result /\ store' = store

ScenariosAbsent(text) == Lacks(text, "scenarios")

ScenariosAbsentOrNull(text) ==
    Lacks(text, "scenarios") \/ member(text.json, "scenarios").type = "null"

C29_WitnessRoundTrip ==
    /\ op = "importFromJSON"
    /\ out.result
    /\ out.text = exportToJSON(store)
    /\ Len(store.periods) = 4
    /\ Len(store.scenarios) = 2
    /\ store.periods[1].sales # Zero
    /\ store.company.name = "B"

\* a text that is not JSON has been refused
C29_WitnessRefused ==
    /\ op = "importFromJSON"
    /\ ~out.result
    /\ out.text = NotJson
    /\ Len(store.periods) = 4
====
